---- MODULE Spec2Model ----
(***************************************************************************)
(* SocketManager (ts/textsecure/SocketManager.ts): the authenticated and   *)
(* the unauthenticated WebSocketResource slots, the reconnect logic, the   *)
(* request-handler registry and the fetch bridge.                          *)
(*                                                                         *)
(* Execution model.  The program runs on one JavaScript event loop.  One   *)
(* action of this module is one task of that loop: a public method call up *)
(* to its first suspension, or the delivery of one event (a connect        *)
(* result, a close event, a timer) TOGETHER WITH the continuations of the  *)
(* `await`s that the event settles.  Those continuations are promise       *)
(* reactions: they run, in registration order, before the loop takes the   *)
(* next task, so no other method call or event can fall between the        *)
(* settling of a process and the resumption of the calls that wait for it. *)
(* authenticate() registers its own `await process.getResult()` (line 182) *)
(* in the same synchronous block that creates the process (line 132), so   *)
(* it is always the first reaction to run.                                 *)
(*                                                                         *)
(* A step is described by a record `s` holding every field of the manager, *)
(* the processes, and the log of what the step did; the operators below    *)
(* transform that record statement by statement, as the code does.         *)
(***************************************************************************)
EXTENDS Integers, Sequences, FiniteSets, TLC

\* ------------------------------------------------------------------ bounds
\* Connect attempts (AbortableProcess objects) created in one run.
MaxProc == 2
\* Inbound push requests received in one run.
MaxReq == 2
\* sendRequest calls made on one resource.
MaxCall == 3
\* Calls made on one back-off policy.
MaxUse == 7

Procs == 1..MaxProc
Reqs == 1..MaxReq
Callers == 1..MaxCall
Handlers == {"h1", "h2"}
\* What a registered handler does when handleRequest is called on it: return,
\* throw synchronously, or call unregisterRequestHandler(itself) and return.
Behaviours == {"ok", "throw", "unreg"}

Min(S) == CHOOSE x \in S : \A y \in S : x <= y

\* ------------------------------------------------------- program constants
\* The code of a close the manager asked for (lines 231 and 568).
IntentionalClose == 3000
\* Close codes of a 'close' event: normal closure, abnormal closure, intentional.
CloseCodes == {1000, 1006, IntentionalClose}

\* Errors a connect attempt is rejected with (connectResource).
HTTPError(code) == [kind |-> "HTTPError", code |-> code]
ConnectTimeoutError == [kind |-> "ConnectTimeoutError", code |-> 0]
AbortError == [kind |-> "AbortError", code |-> 0]
HTTPCodes == {401, 403, 500, -1, 404}
ConnectErrors == {HTTPError(c) : c \in HTTPCodes} \cup {ConnectTimeoutError}
\* What the 'connectFailed' event of the client reports (the `e` of line 548):
\* a rejected certificate, a failed handshake, a refused connection.
FailureReasons == {"certificate", "handshake", "refused"}

\* --------------------------------------------------------------- strings
\* A string is a sequence of one-character strings.
Undefined == <<"undefined-value">>

RECURSIVE SplitAll(_, _)
SplitAll(str, sep) ==
  IF \A i \in 1..Len(str) : str[i] # sep
    THEN <<str>>
    ELSE LET i == Min({k \in 1..Len(str) : str[k] = sep})
         IN <<SubSeq(str, 1, i - 1)>> \o SplitAll(SubSeq(str, i + 1, Len(str)), sep)

\* String.prototype.split(sep, limit): all the pieces, cut to the first `limit`.
Split(str, sep, limit) ==
  LET all == SplitAll(str, sep)
  IN SubSeq(all, 1, IF Len(all) < limit THEN Len(all) ELSE limit)

\* const [a, b] = array
Nth(arr, i) == IF i <= Len(arr) THEN arr[i] ELSE Undefined

\* Bytes.toBase64(Bytes.fromString(str)) and its inverse.
ToBase64(str) == [base64 |-> str]
FromBase64(b) == b.base64

ToLowerCase(tok) ==
  CASE tok = "Basic" -> "basic"
    [] tok = "BASIC" -> "basic"
    [] tok = "Bearer" -> "bearer"
    [] OTHER -> tok

\* ------------------------------------------------------------ credentials
\* WebAPICredentials values the callers pass; 0 stands for `undefined`.
CredTable ==
  << [username |-> <<"u">>, password |-> <<"p">>],
     [username |-> <<"u">>, password |-> <<"p", ":", "q">>],
     [username |-> <<>>, password |-> <<>>] >>
CredIds == 1..Len(CredTable)
Cred(c) == CredTable[c]

\* The Authorization header as the sequence of its whitespace-separated
\* tokens; <<>> is a request without the header.
BasicAuth(scheme, user, password) ==
  <<scheme, ToBase64(user \o <<":">> \o password)>>
HeaderTable ==
  << <<>>,
     BasicAuth("Basic", <<"u">>, <<"p">>),
     BasicAuth("basic", <<"u">>, <<"p">>),
     BasicAuth("Basic", <<"u">>, <<"p", ":", "q">>),
     BasicAuth("Basic", <<"v">>, <<"p">>),
     BasicAuth("Bearer", <<"u">>, <<"p">>),
     <<"Basic">> >>
HeaderIds == 1..Len(HeaderTable)
Header(h) == HeaderTable[h]

\* ----------------------------------------------------------------- state
VARIABLES
  procs,                            \* every AbortableProcess created so far: its
                                    \* channel and where it stands: connecting,
                                    \* aborted (while connecting, result pending),
                                    \* open, closing (close requested, the close
                                    \* event pending), shutdown (graceful shutdown
                                    \* requested), done (rejected, or closed)
  authenticated,                    \* this.authenticated (0: undefined)
  unauthenticated,                  \* this.unauthenticated (0: undefined)
  unauthenticatedExpirationTimer,   \* 0: undefined, p: the handle of the timer
                                    \* set for process p
  expirationTimers,                 \* the expiry timeouts that are armed, each
                                    \* by the process its callback captured
  connectTimers,                    \* the processes whose connect timer is armed
  credentials,                      \* this.credentials (0: undefined)
  status,                           \* this.status
  requestHandlers,                  \* this.requestHandlers, in insertion order
  incomingRequestQueue,             \* this.incomingRequestQueue
  isOffline,                        \* this.isOffline
  backOff,                          \* this.backOff (its position)
  sleepers,                         \* reconnect() calls suspended in sleep(timeout)
  calls,                            \* calls suspended on a process result
  dispatched,                       \* the requests handed to a handler so far
  nextReq,                          \* id of the next inbound request
  outgoingId,                       \* one WebSocketResource: its next sequence id
  outgoingMap,                      \* its pending requests: id and waiting caller
  wire,                             \* ids of the response frames on their way to it
  requests,                         \* what became of each sendRequest call
  closed,                           \* the resource has been closed
  uses,                             \* one BackOff on its own: the calls made on it
  returned,                         \* the delays the BackOff returned since it
                                    \* was created or last reset
  ev                                \* the last step: the method or event, its
                                    \* argument, and what it put out: the events
                                    \* emitted, the reconnect delays taken, the
                                    \* outcomes of the calls that ended, the
                                    \* handleRequest calls made, in order, what
                                    \* it asked of the sockets (close, abort,
                                    \* shutdown, keepalive), the reason of a
                                    \* failed connection, and the processes it
                                    \* created

vars == <<procs, authenticated, unauthenticated, unauthenticatedExpirationTimer,
          expirationTimers, connectTimers, credentials, status, requestHandlers, incomingRequestQueue, isOffline,
          backOff, sleepers, calls, dispatched, nextReq,
          outgoingId, outgoingMap, wire, requests, closed, uses, returned, ev>>

managerVars == <<procs, authenticated, unauthenticated,
                 unauthenticatedExpirationTimer, expirationTimers,
                 connectTimers, credentials, status,
                 requestHandlers, incomingRequestQueue, isOffline, backOff,
                 sleepers, calls, dispatched, nextReq>>
resourceVars == <<outgoingId, outgoingMap, wire, requests, closed>>
policyVars == <<uses, returned>>

NoProc == [kind |-> "none", st |-> "none"]

\* The state at the start of the step `op` (a public method or an event) with
\* the argument `arg` (credentials, header or process).
Start(op, arg) ==
  [ procs |-> procs, authenticated |-> authenticated,
    unauthenticated |-> unauthenticated,
    unauthenticatedExpirationTimer |-> unauthenticatedExpirationTimer,
    expirationTimers |-> expirationTimers, connectTimers |-> connectTimers,
    credentials |-> credentials, status |-> status,
    requestHandlers |-> requestHandlers,
    incomingRequestQueue |-> incomingRequestQueue, isOffline |-> isOffline,
    backOff |-> backOff, returned |-> returned, sleepers |-> sleepers,
    calls |-> calls,
    dispatched |-> dispatched, nextReq |-> nextReq,
    \* the log of the step
    op |-> op, arg |-> arg, code |-> 0, route |-> "",
    emits |-> <<>>, delays |-> <<>>, outcomes |-> {}, handled |-> <<>>,
    transport |-> <<>>, cause |-> "", created |-> <<>>,
    \* scratch
    newp |-> 0, result |-> "", overflow |-> FALSE ]

\* The step ends: its record, computed once, becomes the next state.
Commit(step) ==
  \E s \in {step} :
    /\ ~s.overflow
    /\ procs' = s.procs
    /\ authenticated' = s.authenticated
    /\ unauthenticated' = s.unauthenticated
    /\ unauthenticatedExpirationTimer' = s.unauthenticatedExpirationTimer
    /\ expirationTimers' = s.expirationTimers
    /\ connectTimers' = s.connectTimers
    /\ credentials' = s.credentials
    /\ status' = s.status
    /\ requestHandlers' = s.requestHandlers
    /\ incomingRequestQueue' = s.incomingRequestQueue
    /\ isOffline' = s.isOffline
    /\ backOff' = s.backOff
    /\ returned' = s.returned
    /\ sleepers' = s.sleepers
    /\ calls' = s.calls
    /\ dispatched' = s.dispatched
    /\ nextReq' = s.nextReq
    /\ UNCHANGED <<resourceVars, uses>>
    /\ ev' = [op |-> s.op, arg |-> s.arg, code |-> s.code, route |-> s.route,
              emits |-> s.emits, delays |-> s.delays, outcomes |-> s.outcomes,
              handled |-> s.handled, transport |-> s.transport, cause |-> s.cause,
              created |-> s.created]

Init ==
  /\ procs = [p \in Procs |-> NoProc]
  /\ authenticated = 0
  /\ unauthenticated = 0
  /\ unauthenticatedExpirationTimer = 0
  /\ expirationTimers = <<>>
  /\ connectTimers = {}
  /\ credentials = 0
  /\ status = "CLOSED"
  /\ requestHandlers = <<>>
  /\ incomingRequestQueue = <<>>
  /\ isOffline = FALSE
  /\ backOff = 0
  /\ sleepers = 0
  /\ calls = {}
  /\ dispatched = {}
  /\ nextReq = 1
  /\ outgoingId = 1
  /\ outgoingMap = {}
  /\ wire = {}
  /\ requests = [c \in Callers |-> [id |-> 0, result |-> "none", response |-> 0]]
  /\ closed = FALSE
  /\ uses = <<>>
  /\ returned = <<>>
  /\ ev = [op |-> "init", arg |-> 0, code |-> 0, route |-> "",
           emits |-> <<>>, delays |-> <<>>, outcomes |-> {}, handled |-> <<>>,
           transport |-> <<>>, cause |-> "", created |-> <<>>]

\* ------------------------------------------------------------ the manager
\* A setStatus that emits on every call.
SetStatus_Always(s, st) ==
  [s EXCEPT !.status = st, !.emits = Append(@, "statusChange")]

\* setStatus (lines 405-412)
SetStatus(s, st) ==
  IF s.status = st
    THEN s
    ELSE [s EXCEPT !.status = st, !.emits = Append(@, "statusChange")]

\* A dropAuthenticated that forgets the status.
DropAuthenticated_KeepStatus(s, p) ==
  IF s.authenticated # p
    THEN s
    ELSE [s EXCEPT !.incomingRequestQueue = <<>>, !.authenticated = 0]

\* A dropAuthenticated that leaves the process in the slot.
DropAuthenticated_KeepSlot(s, p) ==
  IF s.authenticated # p
    THEN s
    ELSE [s EXCEPT !.incomingRequestQueue = <<>>, !.status = "CLOSED",
                   !.emits = IF s.status = "CLOSED"
                               THEN @ ELSE Append(@, "statusChange")]

\* dropAuthenticated (lines 590-600)
DropAuthenticated(s, p) ==
  IF s.authenticated # p
    THEN s
    ELSE SetStatus([s EXCEPT !.incomingRequestQueue = <<>>, !.authenticated = 0],
                   "CLOSED")

\* What the step asks of the socket or the client of process p: "close"
\* (resource.close(code)), "abort" (client.abort()), "shutdown"
\* (resource.shutdown()), "forceKeepAlive".
Transport(s, cmd, p, code) ==
  [s EXCEPT !.transport = Append(@, [cmd |-> cmd, p |-> p, code |-> code])]

\* clearTimeout(handle) on the armed timeouts: the timeout with that handle, if
\* it is still armed, is cancelled.
RECURSIVE ClearTimeout(_, _)
ClearTimeout(timers, handle) ==
  IF timers = <<>> THEN <<>>
  ELSE IF Head(timers) = handle THEN Tail(timers)
  ELSE <<Head(timers)>> \o ClearTimeout(Tail(timers), handle)

\* A dropUnauthenticated that forgets the expiration timer.
DropUnauthenticated_KeepTimer(s, p) ==
  IF s.unauthenticated # p
    THEN s
    ELSE [s EXCEPT !.unauthenticated = 0]

\* dropUnauthenticated (lines 602-615)
DropUnauthenticated(s, p) ==
  IF s.unauthenticated # p
    THEN s
    ELSE LET s1 == [s EXCEPT !.unauthenticated = 0]
         IN IF s1.unauthenticatedExpirationTimer = 0
              THEN s1
              ELSE [s1 EXCEPT !.expirationTimers =
                                ClearTimeout(@, s1.unauthenticatedExpirationTimer),
                              !.unauthenticatedExpirationTimer = 0]

\* connectResource (lines 467-577): a new process, connecting, its connect
\* timer armed (lines 510-514).
FreeIds(s) == {i \in Procs : s.procs[i].st = "none"}
ConnectResource(s, kind) ==
  IF FreeIds(s) = {}
    THEN [s EXCEPT !.overflow = TRUE, !.newp = 0]
    ELSE LET id == Min(FreeIds(s))
         IN [s EXCEPT !.procs[id] = [kind |-> kind, st |-> "connecting"],
                      !.connectTimers = @ \cup {id},
                      !.created = Append(@, id),
                      !.newp = id]

\* A clearTimeout that leaves the connect timer armed.
ClearConnectTimer_Forgotten(s, p) == s

\* clearTimeout(timer) of connectResource (lines 518, 525, 549, 570)
ClearConnectTimer(s, p) == [s EXCEPT !.connectTimers = @ \ {p}]

\* The process has produced its resource (the `resource` of lines 516-522).
HasResource(st) == st \in {"open", "closing", "shutdown"}
\* The result promise of the process is still pending.
Pending(st) == st \in {"connecting", "aborted"}

\* The abort callback of a process (lines 564-573): close the resource with
\* code 3000 if there is one, else cancel the attempt and its timer.
Abort(s, p) ==
  LET st == s.procs[p].st
  IN IF HasResource(st)
       THEN Transport([s EXCEPT !.procs[p].st = IF st = "open" THEN "closing" ELSE st],
                      "close", p, IntentionalClose)
       ELSE Transport(ClearConnectTimer(
                        [s EXCEPT !.procs[p].st =
                                    IF st = "connecting" THEN "aborted" ELSE st], p),
                      "abort", p, 0)

\* A resource on which shutdown() has no effect.
Shutdown_Ignored(s, p) == s

\* WebSocketResource.shutdown(): a graceful close of an open resource.
Shutdown(s, p) ==
  Transport(IF s.procs[p].st = "open" THEN [s EXCEPT !.procs[p].st = "shutdown"] ELSE s,
            "shutdown", p, 0)

\* A reset that leaves the policy where it is.
BackOffReset_Keep(count) == count

\* BackOff over FIBONACCI_TIMEOUTS (seconds): get, getAndIncrement, reset.
BackOffTimeouts == <<1, 2, 3, 5>>
BackOffGet(count) == BackOffTimeouts[count + 1]
BackOffIsFull(count) == count = Len(BackOffTimeouts) - 1
BackOffIncrement(count) == IF BackOffIsFull(count) THEN count ELSE count + 1
BackOffReset(count) == 0

\* A reconnect that takes its delay without advancing the back-off.
Reconnect_SameDelay(s) ==
  [s EXCEPT !.delays = Append(@, BackOffGet(s.backOff)),
            !.returned = Append(@, BackOffGet(s.backOff)),
            !.sleepers = @ + 1]

\* reconnect (lines 148-156): take the delay, go to sleep.
Reconnect(s) ==
  [s EXCEPT !.delays = Append(@, BackOffGet(s.backOff)),
            !.returned = Append(@, BackOffGet(s.backOff)),
            !.backOff = BackOffIncrement(@),
            !.sleepers = @ + 1]

SameCredentials(a, b) ==
  /\ Cred(a).username = Cred(b).username
  /\ Cred(a).password = Cred(b).password

\* How a call ended: res is "return", "throw", ...; error is what it threw.
NoError == [kind |-> "none", code |-> 0]
Outcome(s, call, p, res) ==
  [s EXCEPT !.outcomes = @ \cup {[call |-> call, p |-> p, res |-> res,
                                   error |-> NoError]}]
\* The call is rejected with `error`.
Throw(s, call, p, error) ==
  [s EXCEPT !.outcomes = @ \cup {[call |-> call, p |-> p, res |-> "throw",
                                   error |-> error]}]

\* An authenticate that reconnects whatever the stored credentials are.
AuthenticateStart_NoCoalesce(s, c) ==
  IF s.isOffline
    THEN [s EXCEPT !.result = "throw"]
  ELSE IF Cred(c).username = <<>> /\ Cred(c).password = <<>>
    THEN [s EXCEPT !.result = "return"]
  ELSE LET s1 == SetStatus([s EXCEPT !.credentials = c], "CONNECTING")
           s2 == ConnectResource(s1, "auth")
           s3 == IF s2.authenticated # 0 THEN Abort(s2, s2.authenticated) ELSE s2
       IN [s3 EXCEPT !.authenticated = s2.newp, !.result = "await"]

\* An authenticate that connects while offline.
AuthenticateStart_Offline(s, c) ==
  IF Cred(c).username = <<>> /\ Cred(c).password = <<>>
    THEN [s EXCEPT !.result = "return"]
  ELSE IF s.credentials # 0 /\ SameCredentials(s.credentials, c) /\ s.authenticated # 0
    THEN [s EXCEPT !.result = "coalesce", !.newp = s.authenticated]
  ELSE LET s1 == SetStatus([s EXCEPT !.credentials = c], "CONNECTING")
           s2 == ConnectResource(s1, "auth")
           s3 == IF s2.authenticated # 0 THEN Abort(s2, s2.authenticated) ELSE s2
       IN [s3 EXCEPT !.authenticated = s2.newp, !.result = "await"]

\* An authenticate that accepts empty credentials.
AuthenticateStart_NoEmptyCheck(s, c) ==
  IF s.isOffline
    THEN [s EXCEPT !.result = "throw"]
  ELSE IF s.credentials # 0 /\ SameCredentials(s.credentials, c) /\ s.authenticated # 0
    THEN [s EXCEPT !.result = "coalesce", !.newp = s.authenticated]
  ELSE LET s1 == SetStatus([s EXCEPT !.credentials = c], "CONNECTING")
           s2 == ConnectResource(s1, "auth")
           s3 == IF s2.authenticated # 0 THEN Abort(s2, s2.authenticated) ELSE s2
       IN [s3 EXCEPT !.authenticated = s2.newp, !.result = "await"]

\* authenticate up to its first await (lines 94-146).  result: "throw" (offline),
\* "return" (no credentials), "coalesce" (awaits the process newp, already in
\* the slot), "await" (awaits the process newp it created).
AuthenticateStart(s, c) ==
  IF s.isOffline
    THEN [s EXCEPT !.result = "throw"]
  ELSE IF Cred(c).username = <<>> /\ Cred(c).password = <<>>
    THEN [s EXCEPT !.result = "return"]
  ELSE IF s.credentials # 0 /\ SameCredentials(s.credentials, c) /\ s.authenticated # 0
    THEN [s EXCEPT !.result = "coalesce", !.newp = s.authenticated]
  ELSE LET s1 == SetStatus([s EXCEPT !.credentials = c], "CONNECTING")
           s2 == ConnectResource(s1, "auth")
           s3 == IF s2.authenticated # 0 THEN Abort(s2, s2.authenticated) ELSE s2
       IN [s3 EXCEPT !.authenticated = s2.newp, !.result = "await"]

\* isAuthenticated (lines 684-709)
IsAuthenticated(s, authorization) ==
  IF s.credentials = 0 THEN FALSE
  ELSE IF authorization = <<>> THEN FALSE
  ELSE LET parts == SubSeq(authorization, 1,
                           IF Len(authorization) < 2 THEN Len(authorization) ELSE 2)
           basic == parts[1]
       IN IF ToLowerCase(basic) # "basic" \/ Len(parts) < 2 THEN FALSE
          ELSE LET fields == Split(FromBase64(parts[2]), ":", 2)
                   username == Nth(fields, 1)
                   password == Nth(fields, 2)
               IN /\ username = Cred(s.credentials).username
                  /\ password = Cred(s.credentials).password

\* A startUnauthenticatedExpirationTimer that sets a timer on every call.
StartUnauthenticatedExpirationTimer_Rearm(s, expected) ==
  LET process == s.unauthenticated
  IN IF process = 0 THEN [s EXCEPT !.result = "assert"]
     ELSE IF process # expected THEN [s EXCEPT !.result = "assert"]
     ELSE [s EXCEPT !.unauthenticatedExpirationTimer = process,
                    !.expirationTimers = Append(@, process), !.result = "ok"]

\* A startUnauthenticatedExpirationTimer that sets no timer.
StartUnauthenticatedExpirationTimer_Never(s, expected) ==
  LET process == s.unauthenticated
  IN IF process = 0 THEN [s EXCEPT !.result = "assert"]
     ELSE IF process # expected THEN [s EXCEPT !.result = "assert"]
     ELSE [s EXCEPT !.result = "ok"]

\* startUnauthenticatedExpirationTimer (lines 617-661), called by fetch with the
\* resource of process `expected`.  result: "ok" or "assert".
StartUnauthenticatedExpirationTimer(s, expected) ==
  LET process == s.unauthenticated
  IN IF process = 0 THEN [s EXCEPT !.result = "assert"]
     ELSE IF process # expected THEN [s EXCEPT !.result = "assert"]
     ELSE IF s.unauthenticatedExpirationTimer # 0 THEN [s EXCEPT !.result = "ok"]
     ELSE [s EXCEPT !.unauthenticatedExpirationTimer = process,
                    !.expirationTimers = Append(@, process), !.result = "ok"]

\* fetch, from the point where it holds the resource of process p of the
\* channel `route` (lines 278-312): arm the timer, send the request.
FetchOn(s, route, p) ==
  IF route = "unauth"
    THEN LET s1 == StartUnauthenticatedExpirationTimer(s, p)
         IN IF s1.result = "assert"
              THEN Outcome(s1, "fetch", p, "assert")
              ELSE Outcome(s1, "fetch", p, "sent-unauth")
    ELSE Outcome(s, "fetch", p, "sent-auth")

\* A fetch awaits process.getResult() of the process p in a slot.
FetchAwait(s, route, p) ==
  LET st == s.procs[p].st
  IN IF Pending(st) THEN [s EXCEPT !.calls = @ \cup {[type |-> "fetchP", p |-> p]}]
     ELSE IF HasResource(st) THEN FetchOn(s, route, p)
     ELSE Outcome(s, "fetch", p, "reject")

\* A getUnauthenticatedResource that connects on every call.
GetUnauthenticatedResourceStart_NoShare(s) ==
  IF s.isOffline
    THEN [s EXCEPT !.result = "throw"]
  ELSE LET s1 == ConnectResource(s, "unauth")
       IN [s1 EXCEPT !.unauthenticated = s1.newp, !.result = "await"]

\* A getUnauthenticatedResource that connects while offline.
GetUnauthenticatedResourceStart_Offline(s) ==
  IF s.unauthenticated # 0
    THEN [s EXCEPT !.result = "existing", !.newp = s.unauthenticated]
  ELSE LET s1 == ConnectResource(s, "unauth")
       IN [s1 EXCEPT !.unauthenticated = s1.newp, !.result = "await"]

\* getUnauthenticatedResource up to its first await (lines 414-439).  result:
\* "throw" (offline), "existing" (the process newp of the slot), "await" (the
\* process newp it created and stored).
GetUnauthenticatedResourceStart(s) ==
  IF s.isOffline
    THEN [s EXCEPT !.result = "throw"]
  ELSE IF s.unauthenticated # 0
    THEN [s EXCEPT !.result = "existing", !.newp = s.unauthenticated]
  ELSE LET s1 == ConnectResource(s, "unauth")
       IN [s1 EXCEPT !.unauthenticated = s1.newp, !.result = "await"]

\* ------------------------------------------------------ request handlers
InSeq(x, seq) == \E i \in 1..Len(seq) : seq[i] = x
Remove(seq, x) == SelectSeq(seq, LAMBDA y : y # x)

\* unregisterRequestHandler (lines 346-348)
UnregisterHandler(s, h) == [s EXCEPT !.requestHandlers = Remove(@, h)]

\* A dispatch loop without the try/catch: a throwing handler ends it.
RECURSIVE HandleRequest_NoCatch(_, _, _, _)
HandleRequest_NoCatch(s, hs, req, beh) ==
  IF hs = <<>> THEN s
  ELSE LET h == Head(hs)
       IN IF ~InSeq(h, s.requestHandlers)
            THEN HandleRequest_NoCatch(s, Tail(hs), req, beh)
            ELSE LET s1 == [s EXCEPT !.handled = Append(@, <<h, req>>),
                                     !.dispatched = @ \cup {req}]
                 IN CASE beh[h] = "unreg" ->
                           HandleRequest_NoCatch(UnregisterHandler(s1, h),
                                                 Tail(hs), req, beh)
                      [] beh[h] = "throw" -> Outcome(s1, h, req, "thrown")
                      [] OTHER -> HandleRequest_NoCatch(s1, Tail(hs), req, beh)

\* The loop of lines 672-681 over the handlers `hs` still to visit; a handler
\* removed from the set before its turn is not visited.
RECURSIVE HandleRequest(_, _, _, _)
HandleRequest(s, hs, req, beh) ==
  IF hs = <<>> THEN s
  ELSE LET h == Head(hs)
       IN IF ~InSeq(h, s.requestHandlers)
            THEN HandleRequest(s, Tail(hs), req, beh)
            ELSE LET s1 == [s EXCEPT !.handled = Append(@, <<h, req>>),
                                     !.dispatched = @ \cup {req}]
                     s2 == CASE beh[h] = "unreg" -> UnregisterHandler(s1, h)
                             [] beh[h] = "throw" -> Outcome(s1, h, req, "caught")
                             [] OTHER -> s1
                 IN HandleRequest(s2, Tail(hs), req, beh)

\* queueOrHandleRequest (lines 663-682)
QueueOrHandleRequest(s, req, beh) ==
  IF Len(s.requestHandlers) = 0
    THEN [s EXCEPT !.incomingRequestQueue = Append(@, req)]
    ELSE HandleRequest(s, s.requestHandlers, req, beh)

\* A drain loop that ends when no handler is left.
RECURSIVE Drain_WhileHandled(_, _, _)
Drain_WhileHandled(s, queue, beh) ==
  IF queue = <<>> \/ s.requestHandlers = <<>> THEN s
  ELSE Drain_WhileHandled(QueueOrHandleRequest(s, Head(queue), beh), Tail(queue), beh)

\* The loop of lines 341-343 over the requests that were queued.
RECURSIVE Drain(_, _, _)
Drain(s, queue, beh) ==
  IF queue = <<>> THEN s
  ELSE Drain(QueueOrHandleRequest(s, Head(queue), beh), Tail(queue), beh)

\* A registerRequestHandler that drains a queue it does not empty first.
RegisterHandler_KeepQueue(s, h, beh) ==
  LET s1 == IF InSeq(h, s.requestHandlers)
              THEN s
              ELSE [s EXCEPT !.requestHandlers = Append(@, h)]
      queue == s1.incomingRequestQueue
  IN IF Len(queue) = 0 THEN s1 ELSE Drain(s1, queue, beh)

\* registerRequestHandler (lines 329-344)
RegisterHandler(s, h, beh) ==
  LET s1 == IF InSeq(h, s.requestHandlers)
              THEN s
              ELSE [s EXCEPT !.requestHandlers = Append(@, h)]
      queue == s1.incomingRequestQueue
  IN IF Len(queue) = 0
       THEN s1
       ELSE Drain([s1 EXCEPT !.incomingRequestQueue = <<>>], queue, beh)

\* ------------------------------------------------- resuming suspended calls
Suspend(s, type, p) == [s EXCEPT !.calls = @ \cup {[type |-> type, p |-> p]}]

\* An authenticate call made by anyone (lines 94-146 and the await of 116).
AuthenticateCall(s, c) ==
  LET s1 == AuthenticateStart(s, c)
  IN CASE s1.result = "throw" -> Throw(s1, "authenticate", 0, HTTPError(0))
       [] s1.result = "return" -> Outcome(s1, "authenticate", 0, "return")
       [] s1.result = "coalesce" ->
            IF Pending(s1.procs[s1.newp].st)
              THEN Suspend(s1, "auth", s1.newp)
              ELSE Outcome(s1, "authenticate", s1.newp, "return")
       [] OTHER -> s1

\* getAuthenticatedResource after `await this.authenticate(...)` returned
\* (lines 248-249).
AfterAuthenticate(s, p) ==
  IF s.authenticated = 0
    THEN Outcome(s, "fetch", p, "assert")
    ELSE FetchAwait(s, "auth", s.authenticated)

\* The calls suspended on process p resume: its result is there (ok) or it
\* was rejected.
ResumeCalls(s, p, ok) ==
  LET mine(type) == [type |-> type, p |-> p] \in s.calls
      route == s.procs[p].kind
      s0 == [s EXCEPT !.calls = {c \in @ : c.p # p}]
      s1 == IF mine("auth") THEN Outcome(s0, "authenticate", p, "return") ELSE s0
      s2 == IF mine("fetchA") THEN AfterAuthenticate(s1, p) ELSE s1
      s3 == IF ~mine("fetchP") THEN s2
            ELSE IF ok THEN FetchOn(s2, route, p)
            ELSE Outcome(s2, "fetch", p, "reject")
      s4 == IF ~mine("check") THEN s3
            ELSE IF ok THEN Transport(s3, "forceKeepAlive", p, 0)
            ELSE Outcome(s3, "check", p, "reject")
      s5 == IF ~mine("prov") THEN s4
            ELSE IF ok THEN Outcome(s4, "getProvisioningResource", p, "return")
            ELSE Outcome(s4, "getProvisioningResource", p, "reject")
  IN s5

\* A success path that leaves the status where it is.
AuthenticateResolved_StatusKept(s, p) ==
  [s EXCEPT !.backOff = BackOffReset(@), !.returned = <<>>]

\* A success path that leaves the back-off where it is.
AuthenticateResolved_KeepBackOff(s, p) == SetStatus(s, "OPEN")

\* authenticate resumes with the resource (lines 182-183, 215-237).
AuthenticateResolved(s, p) ==
  [SetStatus(s, "OPEN") EXCEPT !.backOff = BackOffReset(@), !.returned = <<>>]

\* A failure path without the identity check of line 191.
AuthenticateRejected_NoIdentityCheck(s, p, error) ==
  LET s1 == DropAuthenticated(s, p)
  IN IF error.kind = "HTTPError"
       THEN IF error.code = 401 \/ error.code = 403
              THEN [s1 EXCEPT !.emits = Append(@, "authError")]
            ELSE IF error.code # 500 /\ error.code # -1
              THEN s1
            ELSE Reconnect(s1)
       ELSE Reconnect(s1)

\* A failure path that retries after every error.
AuthenticateRejected_RetryAll(s, p, error) ==
  IF s.authenticated # p THEN s ELSE Reconnect(DropAuthenticated(s, p))

\* A failure path that retries after HTTP 500 and -1 only.
AuthenticateRejected_HTTPOnly(s, p, error) ==
  IF s.authenticated # p THEN s
  ELSE LET s1 == DropAuthenticated(s, p)
       IN IF error.kind = "HTTPError"
            THEN IF error.code = 401 \/ error.code = 403
                   THEN [s1 EXCEPT !.emits = Append(@, "authError")]
                 ELSE IF error.code # 500 /\ error.code # -1
                   THEN s1
                 ELSE Reconnect(s1)
            ELSE s1

\* A failure path that never retries.
AuthenticateRejected_GiveUp(s, p, error) ==
  IF s.authenticated # p THEN s
  ELSE LET s1 == DropAuthenticated(s, p)
       IN IF error.kind = "HTTPError" /\ (error.code = 401 \/ error.code = 403)
            THEN [s1 EXCEPT !.emits = Append(@, "authError")]
            ELSE s1

\* authenticate resumes with the rejection `error` (lines 184-213).
AuthenticateRejected(s, p, error) ==
  IF s.authenticated # p THEN s
  ELSE LET s1 == DropAuthenticated(s, p)
       IN IF error.kind = "HTTPError"
            THEN IF error.code = 401 \/ error.code = 403
                   THEN [s1 EXCEPT !.emits = Append(@, "authError")]
                 ELSE IF error.code # 500 /\ error.code # -1
                   THEN s1
                 ELSE Reconnect(s1)
            ELSE Reconnect(s1)

\* A close listener that reconnects after every close code.
AuthenticatedClosed_AlwaysReconnect(s, p, code) ==
  IF s.authenticated # p THEN s ELSE Reconnect(DropAuthenticated(s, p))

\* The close listener of the authenticated resource (lines 220-237).
AuthenticatedClosed(s, p, code) ==
  IF s.authenticated # p THEN s
  ELSE LET s1 == DropAuthenticated(s, p)
       IN IF code = IntentionalClose THEN s1 ELSE Reconnect(s1)

\* The close listener of the unauthenticated resource (lines 451-462).
UnauthenticatedClosed(s, p, code) ==
  IF s.unauthenticated # p THEN s ELSE DropUnauthenticated(s, p)

\* getUnauthenticatedResource resumes with the rejection (lines 440-447).
UnauthenticatedRejected(s, p) == DropUnauthenticated(s, p)

\* ---------------------------------------------------------------- actions
\* authenticate(credentials) called from outside (lines 94-146)
Authenticate(c) ==
  Commit(AuthenticateCall(Start("authenticate", c), c))

\* A logout that tears down the unauthenticated channel as well.
Logout_DropsBoth ==
  LET s0 == Start("logout", 0)
      a == s0.authenticated
      u == s0.unauthenticated
      s1 == IF a # 0 THEN DropAuthenticated(Abort(s0, a), a) ELSE s0
      s2 == IF u # 0 THEN DropUnauthenticated(Abort(s1, u), u) ELSE s1
  IN Commit([s2 EXCEPT !.credentials = 0])

\* logout (lines 391-399)
Logout ==
  LET s0 == Start("logout", 0)
      p == s0.authenticated
      s1 == IF p # 0 THEN DropAuthenticated(Abort(s0, p), p) ELSE s0
  IN Commit([s1 EXCEPT !.credentials = 0])

\* An onOnline that only clears the flag.
OnOnline_FlagOnly ==
  Commit([Start("onOnline", 0) EXCEPT !.isOffline = FALSE])

\* onOnline (lines 365-372)
OnOnline ==
  LET s0 == [Start("onOnline", 0) EXCEPT !.isOffline = FALSE]
  IN Commit(IF s0.credentials # 0 THEN AuthenticateCall(s0, s0.credentials) ELSE s0)

\* An onOffline that empties the slots without aborting their processes.
OnOffline_DropsOnly ==
  LET s0 == [Start("onOffline", 0) EXCEPT !.isOffline = TRUE]
      a == s0.authenticated
      u == s0.unauthenticated
      s1 == IF a # 0 THEN DropAuthenticated(s0, a) ELSE s0
      s2 == IF u # 0 THEN DropUnauthenticated(s1, u) ELSE s1
  IN Commit(s2)

\* onOffline (lines 376-389)
OnOffline ==
  LET s0 == [Start("onOffline", 0) EXCEPT !.isOffline = TRUE]
      a == s0.authenticated
      u == s0.unauthenticated
      s1 == IF a # 0 THEN DropAuthenticated(Abort(s0, a), a) ELSE s0
      s2 == IF u # 0 THEN DropUnauthenticated(Abort(s1, u), u) ELSE s1
  IN Commit(s2)

\* getAuthenticatedResource (lines 242-250), called by fetch
GetAuthenticatedResource(s) ==
  IF s.authenticated = 0
    THEN IF s.credentials = 0
           THEN Outcome(s, "fetch", 0, "assert")
           ELSE LET s1 == AuthenticateStart(s, s.credentials)
                IN CASE s1.result = "throw" -> Throw(s1, "fetch", 0, HTTPError(0))
                     [] s1.result = "return" -> AfterAuthenticate(s1, 0)
                     [] OTHER -> Suspend(s1, "fetchA", s1.newp)
    ELSE FetchAwait(s, "auth", s.authenticated)

\* fetch(url, init) up to its first suspension (lines 270-279); h is the
\* Authorization header of init.headers.
Fetch(h) ==
  LET s0 == Start("fetch", h)
  IN IF IsAuthenticated(s0, Header(h))
       THEN Commit(GetAuthenticatedResource([s0 EXCEPT !.route = "auth"]))
       ELSE LET s1 == GetUnauthenticatedResourceStart(
                        [s0 EXCEPT !.route = "unauth"])
            IN Commit(CASE s1.result = "throw" -> Throw(s1, "fetch", 0, HTTPError(0))
                        [] s1.result = "existing" -> FetchAwait(s1, "unauth", s1.newp)
                        [] OTHER -> Suspend(s1, "fetchP", s1.newp))

\* A checkResource that sends nothing.
CheckResource_Skip(s, p) == s

\* checkResource (lines 579-588): await the result of the process, then
\* forceKeepAlive on its resource.
CheckResource(s, p) ==
  IF p = 0 THEN s
  ELSE IF Pending(s.procs[p].st) THEN Suspend(s, "check", p)
  ELSE IF HasResource(s.procs[p].st) THEN Transport(s, "forceKeepAlive", p, 0)
  ELSE Outcome(s, "check", p, "reject")

\* check (lines 351-361)
Check ==
  LET s0 == Start("check", 0)
  IN Commit(IF s0.isOffline
              THEN s0
              ELSE CheckResource(CheckResource(s0, s0.authenticated),
                                 s0.unauthenticated))

\* A getProvisioningResource that keeps its process in the unauthenticated
\* slot.
GetProvisioningResource_Stored ==
  LET s1 == ConnectResource(Start("getProvisioningResource", 0), "prov")
  IN Commit(Suspend([s1 EXCEPT !.unauthenticated = s1.newp], "prov", s1.newp))

\* getProvisioningResource(handler) (lines 253-265): a process of its own,
\* awaited by the caller.
GetProvisioningResource ==
  LET s1 == ConnectResource(Start("getProvisioningResource", 0), "prov")
  IN Commit(Suspend(s1, "prov", s1.newp))

\* registerRequestHandler(handler) (lines 329-344)
RegisterRequestHandler(h, beh) ==
  Commit(RegisterHandler(Start("registerRequestHandler", h), h, beh))

\* unregisterRequestHandler(handler) (lines 346-348)
UnregisterRequestHandler(h) ==
  Commit(UnregisterHandler(Start("unregisterRequestHandler", h), h))

\* The 'connect' event of process p (lines 517-522) and what it resumes.
ConnectOk(p) ==
  /\ procs[p].st = "connecting"
  /\ LET s0 == ClearConnectTimer([Start("connect", p) EXCEPT !.procs[p].st = "open"], p)
         s1 == IF s0.procs[p].kind = "auth" THEN AuthenticateResolved(s0, p) ELSE s0
     IN Commit(ResumeCalls(s1, p, TRUE))

\* A rejection that leaves the result pending and resumes nobody.
Rejected_LeftPending(s, p, error) == s

\* Process p is rejected with `error` and the calls awaiting it resume: the
\* catch of authenticate or of getUnauthenticatedResource; nothing of the
\* manager waits for a provisioning process.
Rejected(s, p, error) ==
  LET s0 == [s EXCEPT !.procs[p].st = "done"]
      s1 == CASE s0.procs[p].kind = "auth" -> AuthenticateRejected(s0, p, error)
              [] s0.procs[p].kind = "unauth" -> UnauthenticatedRejected(s0, p)
              [] OTHER -> s0
  IN ResumeCalls(s1, p, FALSE)

\* The 'httpResponse' event (lines 524-546) and the connect timer (lines
\* 510-514) of process p.  The timer, while armed, rejects with
\* ConnectTimeoutError and aborts the client; the event clears the timer and
\* rejects with the HTTP error.  A rejection of a settled promise is ignored.
ConnectFail(p, error) ==
  /\ IF error = ConnectTimeoutError
       THEN p \in connectTimers
       ELSE procs[p].st = "connecting"
  /\ LET s0 == [Start("connectFail", p) EXCEPT !.code = error.code]
         s1 == IF error = ConnectTimeoutError
                 THEN Transport([s0 EXCEPT !.connectTimers = @ \ {p}], "abort", p, 0)
                 ELSE ClearConnectTimer(s0, p)
     IN Commit(IF procs[p].st = "connecting" THEN Rejected(s1, p, error) ELSE s1)

\* The 'connectFailed' event of process p (lines 548-559): `e` is what failed.
ConnectFailed(p, e) ==
  /\ procs[p].st = "connecting"
  /\ LET s0 == [Start("connectFailed", p) EXCEPT !.code = -1, !.cause = e]
     IN Commit(Rejected(ClearConnectTimer(s0, p), p, HTTPError(-1)))

\* The result of an aborted attempt is rejected (AbortableProcess.abort).
AbortSettles(p) ==
  /\ procs[p].st = "aborted"
  /\ Commit(Rejected(Start("abortSettles", p), p, AbortError))

\* The 'close' event of the resource of process p: the peer closed it with
\* `code` (possibly while a close the manager asked for was under way), or the
\* close the manager asked for has completed.
CloseEvent(p, code) ==
  /\ HasResource(procs[p].st)
  /\ LET s0 == [Start("close", p) EXCEPT !.procs[p].st = "done", !.code = code]
     IN Commit(CASE s0.procs[p].kind = "auth" -> AuthenticatedClosed(s0, p, code)
                 [] s0.procs[p].kind = "unauth" -> UnauthenticatedClosed(s0, p, code)
                 [] OTHER -> s0)

\* A reconnect that wakes up and does nothing.
ReconnectWake_Cancelled ==
  /\ sleepers > 0
  /\ Commit([Start("reconnectWake", 0) EXCEPT !.sleepers = @ - 1])

\* A reconnect that does not look at the offline flag when it wakes.
ReconnectWake_Offline ==
  /\ sleepers > 0
  /\ LET s0 == [Start("reconnectWake", 0) EXCEPT !.sleepers = @ - 1]
     IN Commit(IF s0.authenticated # 0 THEN s0
               ELSE IF s0.credentials = 0 THEN Outcome(s0, "reconnect", 0, "assert")
               ELSE LET s1 == AuthenticateCall(s0, s0.credentials)
                    IN IF s1.result = "throw" THEN Reconnect(s1) ELSE s1)

\* reconnect wakes from sleep(timeout) (lines 157-177)
ReconnectWake ==
  /\ sleepers > 0
  /\ LET s0 == [Start("reconnectWake", 0) EXCEPT !.sleepers = @ - 1]
     IN Commit(IF s0.isOffline THEN s0
               ELSE IF s0.authenticated # 0 THEN s0
               ELSE IF s0.credentials = 0 THEN Outcome(s0, "reconnect", 0, "assert")
               ELSE LET s1 == AuthenticateCall(s0, s0.credentials)
                    IN IF s1.result = "throw" THEN Reconnect(s1) ELSE s1)

\* An armed expiration timer fires (lines 639-660); p is the process its
\* callback captured.
ExpirationTimerFires ==
  \E i \in 1..Len(expirationTimers) :
    LET p == expirationTimers[i]
        s0 == Shutdown([Start("expire", p) EXCEPT
                          !.expirationTimers = ClearTimeout(@, p)], p)
    IN Commit(IF s0.unauthenticated # p
                THEN s0
                ELSE GetUnauthenticatedResourceStart(DropUnauthenticated(s0, p)))

\* A push request arrives on the authenticated resource of process p: the
\* handleRequest of lines 137-139, which the resource calls for as long as it
\* lives: until its close event, also after a close was asked of it.
IncomingRequest(p, beh) ==
  /\ procs[p].kind = "auth"
  /\ procs[p].st \in {"open", "closing"}
  /\ nextReq <= MaxReq
  /\ LET s0 == [Start("request", p) EXCEPT !.nextReq = @ + 1]
     IN Commit(QueueOrHandleRequest(s0, nextReq, beh))

\* A request arrives on the provisioning resource of process p: the
\* handleRequest of lines 259-261 hands it to the handler of the caller.
ProvisioningRequest(p) ==
  /\ procs[p].kind = "prov"
  /\ procs[p].st = "open"
  /\ nextReq <= MaxReq
  /\ Commit([Start("provisioningRequest", p) EXCEPT
               !.nextReq = @ + 1,
               !.handled = Append(@, <<"provisioning", nextReq>>)])

BehaviourMaps == [Handlers -> Behaviours]

\* The connection events of the processes and the timers.
Events ==
  \/ \E p \in Procs : ConnectOk(p)
  \/ \E p \in Procs, error \in ConnectErrors : ConnectFail(p, error)
  \/ \E p \in Procs, e \in FailureReasons : ConnectFailed(p, e)
  \/ \E p \in Procs : AbortSettles(p)
  \/ \E p \in Procs, code \in CloseCodes : CloseEvent(p, code)
  \/ ReconnectWake
  \/ ExpirationTimerFires

\* Headers of the fetches of the life-cycle specification: none, and Basic
\* auth for the first credentials.
LifecycleHeaders == {1, 2}

\* The life cycle of the two channels: every public call and every event, in
\* every order.
Next ==
  \/ \E c \in CredIds : Authenticate(c)
  \/ Logout
  \/ OnOnline
  \/ OnOffline
  \/ \E h \in LifecycleHeaders : Fetch(h)
  \/ Events

Spec == Init /\ [][Next]_vars

\* The authenticated channel with its push requests and request handlers:
\* authenticate with either credentials, logout, every event of the
\* authenticated processes, and the handler registry.
PushErrors == {HTTPError(401), HTTPError(500)}
NextPush ==
  \/ \E c \in {1, 2} : Authenticate(c)
  \/ Logout
  \/ \E p \in Procs : ConnectOk(p)
  \/ \E p \in Procs, error \in PushErrors : ConnectFail(p, error)
  \/ \E p \in Procs : AbortSettles(p)
  \/ \E p \in Procs, code \in CloseCodes : CloseEvent(p, code)
  \/ ReconnectWake
  \/ \E p \in Procs, beh \in BehaviourMaps : IncomingRequest(p, beh)
  \/ \E h \in Handlers, beh \in BehaviourMaps : RegisterRequestHandler(h, beh)
  \/ \E h \in Handlers : UnregisterRequestHandler(h)

SpecPush == Init /\ [][NextPush]_vars

\* The life cycle with every shape of Authorization header.
NextFetch ==
  \/ \E c \in CredIds : Authenticate(c)
  \/ Logout
  \/ OnOnline
  \/ OnOffline
  \/ \E h \in HeaderIds : Fetch(h)
  \/ Events

SpecFetch == Init /\ [][NextFetch]_vars

\* Both channels with one set of credentials and without connect failures,
\* together with the handler registry (handlers that return).
QuietHandlers == [h \in Handlers |-> "ok"]
NextFrame ==
  \/ Authenticate(1)
  \/ Logout
  \/ OnOnline
  \/ OnOffline
  \/ Fetch(1)
  \/ \E p \in Procs : ConnectOk(p)
  \/ \E p \in Procs : AbortSettles(p)
  \/ \E p \in Procs, code \in CloseCodes : CloseEvent(p, code)
  \/ ReconnectWake
  \/ ExpirationTimerFires
  \/ \E h \in Handlers : RegisterRequestHandler(h, QuietHandlers)
  \/ \E h \in Handlers : UnregisterRequestHandler(h)
  \/ Check

SpecFrame == Init /\ [][NextFrame]_vars

\* The provisioning resource next to the authenticated channel and its
\* handler registry.
NextProvisioning ==
  \/ GetProvisioningResource
  \/ \E p \in Procs : ProvisioningRequest(p)
  \/ Authenticate(1)
  \/ Logout
  \/ \E p \in Procs : ConnectOk(p)
  \/ \E p \in Procs, error \in PushErrors : ConnectFail(p, error)
  \/ \E p \in Procs : AbortSettles(p)
  \/ \E p \in Procs, code \in CloseCodes : CloseEvent(p, code)
  \/ ReconnectWake
  \/ \E p \in Procs : IncomingRequest(p, QuietHandlers)
  \/ \E h \in Handlers : RegisterRequestHandler(h, QuietHandlers)

SpecProvisioning == Init /\ [][NextProvisioning]_vars

\* The authenticated channel facing a server that fails or drops connections
\* with retryable causes only, and in the end accepts one: the attempt made
\* with the last process of the run is neither failed nor torn down.
RetryableErrors == {HTTPError(500), HTTPError(-1), ConnectTimeoutError}
RetryableCloseCodes == CloseCodes \ {IntentionalClose}
CanRetry == \E i \in Procs : procs[i].st = "none"
NextReconnect ==
  \/ (authenticated = 0 \/ CanRetry) /\ \E c \in {1, 2} : Authenticate(c)
  \/ CanRetry /\ Logout
  \/ CanRetry /\ OnOffline
  \/ OnOnline
  \/ \E p \in Procs : ConnectOk(p)
  \/ CanRetry /\ \E p \in Procs, error \in RetryableErrors : ConnectFail(p, error)
  \/ CanRetry /\ \E p \in Procs, code \in RetryableCloseCodes : CloseEvent(p, code)
  \/ \E p \in Procs : procs[p].st = "closing" /\ CloseEvent(p, IntentionalClose)
  \/ \E p \in Procs : AbortSettles(p)
  \/ ReconnectWake

\* The sleep of a reconnect ends (line 156), and a connection that stays
\* possible is made.
SpecReconnect ==
  /\ Init
  /\ [][NextReconnect]_vars
  /\ WF_vars(ReconnectWake)
  /\ \A p \in Procs : WF_vars(ConnectOk(p))

\* The calls that create, await and abort connection attempts, and what
\* settles an attempt: the 'connect' event, the connect timer, the rejection
\* of an aborted attempt.  What settles an attempt is not postponed for ever:
\* the connect timer of a connecting attempt fires unless it is cleared (lines
\* 510-514), and the result of an aborted attempt is rejected.
NextSettle ==
  \/ \E c \in {1, 2} : Authenticate(c)
  \/ Logout
  \/ OnOffline
  \/ \E h \in LifecycleHeaders : Fetch(h)
  \/ \E p \in Procs : ConnectOk(p)
  \/ \E p \in Procs : ConnectFail(p, ConnectTimeoutError)
  \/ \E p \in Procs : AbortSettles(p)

SpecSettle ==
  /\ Init
  /\ [][NextSettle]_vars
  /\ \A p \in Procs :
       WF_vars(ConnectFail(p, ConnectTimeoutError) \/ AbortSettles(p))

\* ------------------------------------------------- one WebSocketResource
\* The resource that fetch sends on (lines 299-312): sendRequest, the response
\* frames of the server, the request timeout and close.
Step(op, arg) ==
  [op |-> op, arg |-> arg, code |-> 0, route |-> "", emits |-> <<>>,
   delays |-> <<>>, outcomes |-> {}, handled |-> <<>>, transport |-> <<>>,
   cause |-> "", created |-> <<>>]

\* A resource that hands a response to its oldest pending request.
OldestPending(map, id) == {e \in map : \A f \in map : e.id <= f.id}

\* The pending entries a response frame with `id` resolves.
MatchingPending(map, id) == {e \in map : e.id = id}

\* sendRequest: a fresh sequence id, a pending entry for the caller.
SendRequest(c) ==
  /\ ~closed
  /\ requests[c].result = "none"
  /\ outgoingMap' = outgoingMap \cup {[id |-> outgoingId, caller |-> c]}
  /\ requests' = [requests EXCEPT ![c] = [@ EXCEPT !.id = outgoingId,
                                                    !.result = "pending"]]
  /\ outgoingId' = outgoingId + 1
  /\ ev' = Step("sendRequest", c)
  /\ UNCHANGED <<managerVars, policyVars, wire, closed>>

\* The server puts a response frame with `id` on the wire: for a request it
\* got, once more for a request it has answered, or with an id nobody sent.
ServerResponds(id) ==
  /\ ~closed
  /\ id \notin wire
  /\ wire' = wire \cup {id}
  /\ ev' = Step("serverResponds", id)
  /\ UNCHANGED <<managerVars, policyVars, outgoingId, outgoingMap, requests, closed>>

\* A response frame arrives: it resolves the matching pending entry, or is
\* dropped.
ReceiveResponse(id) ==
  /\ id \in wire
  /\ wire' = wire \ {id}
  /\ LET hit == MatchingPending(outgoingMap, id)
     IN /\ outgoingMap' = outgoingMap \ hit
        /\ requests' = [c \in Callers |->
                          IF \E e \in hit : e.caller = c
                            THEN [requests[c] EXCEPT !.result = "response",
                                                     !.response = id]
                            ELSE requests[c]]
  /\ ev' = Step("response", id)
  /\ UNCHANGED <<managerVars, policyVars, outgoingId, closed>>

\* The timeout of the request of caller c: only its entry is rejected.
RequestTimeout(c) ==
  /\ requests[c].result = "pending"
  /\ outgoingMap' = {e \in outgoingMap : e.caller # c}
  /\ requests' = [requests EXCEPT ![c] = [@ EXCEPT !.result = "timeout"]]
  /\ ev' = Step("requestTimeout", c)
  /\ UNCHANGED <<managerVars, policyVars, outgoingId, wire, closed>>

\* close: every pending request is rejected, the resource is finished.
CloseResource ==
  /\ ~closed
  /\ closed' = TRUE
  /\ outgoingMap' = {}
  /\ wire' = {}
  /\ requests' = [c \in Callers |->
                    IF requests[c].result = "pending"
                      THEN [requests[c] EXCEPT !.result = "closed"]
                      ELSE requests[c]]
  /\ ev' = Step("closeResource", 0)
  /\ UNCHANGED <<managerVars, policyVars, outgoingId>>

NextResource ==
  \/ \E c \in Callers : SendRequest(c)
  \/ \E id \in 1..(MaxCall + 1) : ServerResponds(id)
  \/ \E id \in 1..(MaxCall + 1) : ReceiveResponse(id)
  \/ \E c \in Callers : RequestTimeout(c)
  \/ CloseResource

SpecResource == Init /\ [][NextResource]_vars

\* -------------------------------------------------------- one BackOff
\* The back-off policy of the manager (line 60) on its own: getAndIncrement
\* and reset called in every order.
BackOffNext ==
  /\ Len(uses) < MaxUse
  /\ uses' = Append(uses, "getAndIncrement")
  /\ returned' = Append(returned, BackOffGet(backOff))
  /\ backOff' = BackOffIncrement(backOff)
  /\ ev' = Step("getAndIncrement", BackOffGet(backOff))
  /\ UNCHANGED <<procs, authenticated, unauthenticated,
                 unauthenticatedExpirationTimer, expirationTimers,
                 connectTimers, credentials, status,
                 requestHandlers, incomingRequestQueue, isOffline, sleepers,
                 calls, dispatched, nextReq, resourceVars>>

BackOffResetCall ==
  /\ Len(uses) < MaxUse
  /\ uses' = Append(uses, "reset")
  /\ returned' = <<>>
  /\ backOff' = BackOffReset(backOff)
  /\ ev' = Step("reset", 0)
  /\ UNCHANGED <<procs, authenticated, unauthenticated,
                 unauthenticatedExpirationTimer, expirationTimers,
                 connectTimers, credentials, status,
                 requestHandlers, incomingRequestQueue, isOffline, sleepers,
                 calls, dispatched, nextReq, resourceVars>>

NextBackOff == BackOffNext \/ BackOffResetCall

SpecBackOff == Init /\ [][NextBackOff]_vars

\* ------------------------------------------------------------------ claims
\* C1: while the offline flag is set, the authenticated and the
\* unauthenticated slot are both empty.
C1_NoResourceWhileOffline ==
  isOffline => authenticated = 0 /\ unauthenticated = 0

\* C1 witness: the manager went offline while it held a process, which is
\* aborted and out of the slots; the credentials are kept.
C1_Witness ==
  /\ isOffline
  /\ \E p \in Procs : procs[p].st \in {"aborted", "closing"}
  /\ credentials # 0

\* C2: authenticate with the stored credentials while a process is in the
\* authenticated slot (directly, or through onOnline) creates no process,
\* aborts and replaces none, and returns only once that process has settled.
C2_Coalesced ==
  /\ ev'.op \in {"authenticate", "onOnline"}
  /\ credentials # 0
  /\ authenticated # 0
  /\ SameCredentials(credentials,
                     IF ev'.op = "authenticate" THEN ev'.arg ELSE credentials)
C2_NoSecondAttempt ==
  C2_Coalesced =>
    /\ procs' = procs
    /\ authenticated' = authenticated
    /\ credentials' = credentials
    /\ IF Pending(procs[authenticated].st)
         THEN /\ [type |-> "auth", p |-> authenticated] \in calls'
              /\ ev'.outcomes = {}
         ELSE /\ calls' = calls
              /\ ev'.outcomes = {[call |-> "authenticate", p |-> authenticated,
                                  res |-> "return", error |-> NoError]}
\* A suspended call waits for a pending process, and a call that returns from
\* waiting for a process returns in a state where that process has settled.
C2_ReturnsWhenSettled ==
  /\ \A c \in calls : c.type = "auth" => Pending(procs[c.p].st)
  /\ \A o \in ev.outcomes :
       o.call = "authenticate" /\ o.p # 0 => ~Pending(procs[o.p].st)
C2_Idempotent ==
  [](C2_ReturnsWhenSettled) /\ [][C2_NoSecondAttempt]_vars

\* C2 witness: a second authenticate with the stored credentials is suspended
\* on the connecting process of the slot.
C2_Witness ==
  /\ ev.op = "authenticate"
  /\ authenticated # 0
  /\ procs[authenticated].st = "connecting"
  /\ [type |-> "auth", p |-> authenticated] \in calls
  /\ SameCredentials(credentials, ev.arg)

\* C3: the close event or the rejection of an authenticated process that is
\* not the process of the authenticated slot schedules no reconnect, leaves
\* the back-off where it is, and changes neither the slot, the status nor the
\* incoming-request queue.
C3_StaleEvent ==
  /\ ev'.op \in {"close", "connectFail", "abortSettles"}
  /\ procs[ev'.arg].kind = "auth"
  /\ authenticated # ev'.arg
C3_StaleIgnored ==
  [][C3_StaleEvent =>
       /\ sleepers' = sleepers
       /\ ev'.delays = <<>>
       /\ backOff' = backOff
       /\ authenticated' = authenticated
       /\ status' = status
       /\ incomingRequestQueue' = incomingRequestQueue]_vars

\* C3 witness: the resource of a superseded process has closed while its
\* successor holds the slot and requests wait in the queue.
C3_Witness ==
  /\ ev.op = "close"
  /\ procs[ev.arg].kind = "auth"
  /\ authenticated \notin {0, ev.arg}
  /\ incomingRequestQueue # <<>>

\* C4: the status is OPEN only if the authenticated slot holds a process that
\* has connected and whose resource is not closed; and when the slot is
\* emptied (the current resource closed or was dropped) the status is CLOSED.
C4_OpenOnlyWhileConnected ==
  status = "OPEN" => authenticated # 0 /\ procs[authenticated].st = "open"
C4_DropForcesClosed ==
  authenticated # 0 /\ authenticated' = 0 => status' = "CLOSED"
C4_Status ==
  [](C4_OpenOnlyWhileConnected) /\ [][C4_DropForcesClosed]_vars

\* C4 witness: the manager was OPEN and its resource closed: slot empty,
\* status CLOSED, the process done.
C4_Witness ==
  /\ status = "CLOSED"
  /\ authenticated = 0
  /\ \E p \in Procs : procs[p].kind = "auth" /\ procs[p].st = "done"
  /\ sleepers > 0

\* C5 as stated: requests that arrive while no handler is registered are kept
\* in arrival order, and the first registerRequestHandler call dispatches all
\* of them to that handler in that order and leaves the queue empty.
C5_FirstRegistration ==
  /\ ev'.op = "registerRequestHandler"
  /\ requestHandlers = <<>>
  /\ incomingRequestQueue # <<>>
C5_QueueInArrivalOrder ==
  /\ \A i, j \in 1..Len(incomingRequestQueue) :
       i < j => incomingRequestQueue[i] < incomingRequestQueue[j]
  /\ \A i \in 1..Len(incomingRequestQueue) :
       incomingRequestQueue[i] \notin dispatched
C5_Queued ==
  ev'.op = "request" /\ requestHandlers = <<>> =>
    /\ incomingRequestQueue' = Append(incomingRequestQueue, nextReq)
    /\ ev'.handled = <<>>
C5_DrainInOrder ==
  C5_FirstRegistration =>
    \E k \in 1..Len(incomingRequestQueue) :
      /\ ev'.handled = [i \in 1..k |-> <<ev'.arg, incomingRequestQueue[i]>>]
      /\ incomingRequestQueue' =
           SubSeq(incomingRequestQueue, k + 1, Len(incomingRequestQueue))
      /\ k < Len(incomingRequestQueue) => requestHandlers' = <<>>
C5_NoRedelivery ==
  \A i \in 1..Len(ev'.handled) : ev'.handled[i][2] \notin dispatched
C6_AbnormalClose ==
  /\ ev'.op = "close"
  /\ ev'.code # IntentionalClose
  /\ status = "OPEN"
  /\ authenticated = ev'.arg
C6_ClosedAndScheduled ==
  C6_AbnormalClose =>
    /\ status' = "CLOSED"
    /\ authenticated' = 0
    /\ ev'.delays = <<BackOffGet(backOff)>>
    /\ backOff' = BackOffIncrement(backOff)
    /\ sleepers' = sleepers + 1
    /\ credentials' = credentials
C6_WakeReconnects ==
  ev'.op = "reconnectWake" /\ ~isOffline /\ credentials # 0 /\ authenticated = 0 =>
    /\ authenticated' # 0
    /\ procs[authenticated'].st = "none"
    /\ procs'[authenticated'] = [kind |-> "auth", st |-> "connecting"]
    /\ status' = "CONNECTING"
    /\ credentials' = credentials
C6_SuccessOpens ==
  ev'.op = "connect" /\ procs[ev'.arg].kind = "auth" =>
    /\ authenticated' = ev'.arg
    /\ status' = "OPEN"
    /\ backOff' = 0
C6_Reconnects ==
  [][C6_ClosedAndScheduled /\ C6_WakeReconnects /\ C6_SuccessOpens]_vars

\* C6 witness: the manager was OPEN and its resource closed with 1006: the
\* status is CLOSED and one reconnect sleeps for the first back-off delay.
C6_Witness ==
  /\ ev.op = "close"
  /\ ev.code = 1006
  /\ ev.delays = <<BackOffGet(0)>>
  /\ status = "CLOSED"
  /\ sleepers = 1
  /\ backOff = 1

\* C7: when the attempt of the process of the authenticated slot fails with
\* HTTP 401 or 403, authError is emitted exactly once, no reconnect is
\* scheduled (no delay taken, no sleeper, the back-off not advanced), the slot
\* is empty and the status CLOSED afterwards; no other step emits authError.
C7_AuthFailure ==
  /\ ev'.op = "connectFail"
  /\ ev'.code \in {401, 403}
  /\ procs[ev'.arg].kind = "auth"
  /\ authenticated = ev'.arg
C7_Emitted == SelectSeq(ev'.emits, LAMBDA e : e = "authError")
C7_AuthErrorOnce ==
  /\ C7_AuthFailure =>
       /\ Len(C7_Emitted) = 1
       /\ ev'.delays = <<>>
       /\ sleepers' = sleepers
       /\ backOff' = backOff
       /\ authenticated' = 0
       /\ status' = "CLOSED"
       /\ procs'[ev'.arg].st = "done"
  /\ ~C7_AuthFailure => Len(C7_Emitted) = 0
C7_AuthError == [][C7_AuthErrorOnce]_vars

\* C7 witness: an attempt has just failed with 401 and authError was emitted.
C7_Witness ==
  /\ ev.op = "connectFail"
  /\ ev.code = 401
  /\ ev.emits = <<"statusChange", "authError">>
  /\ status = "CLOSED"
  /\ authenticated = 0

\* C8: fetch routes a request to the authenticated resource exactly when its
\* Authorization header is Basic auth for the stored credentials (the scheme
\* Basic and the base64 of username, a colon and password); every other
\* request goes to the unauthenticated resource.
C8_BasicForStored(authorization) ==
  /\ credentials # 0
  /\ Len(authorization) >= 2
  /\ ToLowerCase(authorization[1]) = "basic"
  /\ FromBase64(authorization[2]) =
       Cred(credentials).username \o <<":">> \o Cred(credentials).password
C8_RoutesByCredentials ==
  [][ev'.op = "fetch" =>
       (ev'.route = "auth" <=> C8_BasicForStored(Header(ev'.arg)))]_vars

\* C9: while the expiry timer is armed its resource is open and in the
\* unauthenticated slot; when the timer fires the resource is shut down and
\* out of the slot, which holds a new attempt; a resource that was shut down
\* or closed stays so; and a fetch of the unauthenticated channel is sent on
\* the open resource of the slot, so never on the expired one.
C9_TimerGuardsSlot ==
  unauthenticatedExpirationTimer > 0 =>
    /\ unauthenticated = unauthenticatedExpirationTimer
    /\ procs[unauthenticated].st = "open"
C9_Expires ==
  ev'.op = "expire" =>
    /\ ev'.arg = unauthenticatedExpirationTimer
    /\ procs'[ev'.arg].st = "shutdown"
    /\ unauthenticated' \notin {0, ev'.arg}
    /\ procs[unauthenticated'].st = "none"
    /\ procs'[unauthenticated'] = [kind |-> "unauth", st |-> "connecting"]
    /\ unauthenticatedExpirationTimer' = 0
C9_StaysDown ==
  \A p \in Procs :
    procs[p].st \in {"shutdown", "done"} => procs'[p].st \in {"shutdown", "done"}
C9_ServedByCurrent ==
  \A o \in ev'.outcomes :
    o.call = "fetch" /\ o.res = "sent-unauth" =>
      /\ unauthenticated' = o.p
      /\ procs'[o.p].st = "open"
C9_Rotation ==
  /\ [](C9_TimerGuardsSlot)
  /\ [][C9_Expires /\ C9_StaysDown /\ C9_ServedByCurrent]_vars

\* C9 witness: the first unauthenticated resource expired and is shut down; a
\* fetch that waited for its successor has just been sent on the successor.
C9_Witness ==
  /\ ev.op = "connect"
  /\ unauthenticated = ev.arg
  /\ [call |-> "fetch", p |-> ev.arg, res |-> "sent-unauth", error |-> NoError]
       \in ev.outcomes
  /\ \E q \in Procs :
       q # ev.arg /\ procs[q] = [kind |-> "unauth", st |-> "shutdown"]

\* C10: whatever the order in which the response frames arrive, a sendRequest
\* call is resolved only with the response whose id is the id assigned to that
\* call; ids are never assigned twice, and a response resolves at most the
\* one pending call it matches.
C10_OwnResponse ==
  \A c \in Callers :
    requests[c].result = "response" => requests[c].response = requests[c].id
C10_UniqueIds ==
  /\ \A c, d \in Callers :
       c # d /\ requests[c].id # 0 => requests[c].id # requests[d].id
  /\ \A e \in outgoingMap :
       requests[e.caller].id = e.id /\ requests[e.caller].result = "pending"
C10_AtMostOneResolved ==
  ev'.op = "response" =>
    Cardinality({c \in Callers : requests'[c] # requests[c]}) <= 1
C10_Correlation ==
  [](C10_OwnResponse /\ C10_UniqueIds) /\ [][C10_AtMostOneResolved]_vars

\* C10 witness: every call has been resolved with its own response, and the
\* response to the first request arrived last.
C10_Witness ==
  /\ \A c \in Callers :
       requests[c].result = "response" /\ requests[c].response = requests[c].id
  /\ ev.op = "response"
  /\ ev.arg = 1
  /\ requests[1].id # 1

\* C11: the delays a back-off policy returned since its last reset are the
\* delays a freshly created policy returns to as many calls, whatever was
\* called on it before the reset.
RECURSIVE C11_FreshDelays(_, _)
C11_FreshDelays(count, n) ==
  IF n = 0 THEN <<>>
  ELSE <<BackOffGet(count)>> \o C11_FreshDelays(BackOffIncrement(count), n - 1)
C11_ResetRestarts ==
  returned = C11_FreshDelays(0, Len(returned))

\* C11 witness: a policy that was driven to its last delay and then reset has
\* returned two delays since.
C11_Witness ==
  /\ Len(returned) = 2
  /\ \E i \in 1..Len(uses) :
       /\ uses[i] = "reset"
       /\ i > Len(BackOffTimeouts)
       /\ \A j \in 1..(i - 1) : uses[j] = "getAndIncrement"

\* C12: when the attempt of the process of the authenticated slot fails with
\* an HTTP status, the slot is emptied and the status CLOSED, and a reconnect
\* is scheduled through the back-off exactly when the status is 500 or -1;
\* authError is emitted exactly when it is 401 or 403.
C12_HttpFailure ==
  /\ ev'.op = "connectFail"
  /\ ev'.code \in HTTPCodes
  /\ procs[ev'.arg].kind = "auth"
  /\ authenticated = ev'.arg
C12_RetryOnlyTransient ==
  C12_HttpFailure =>
    /\ authenticated' = 0
    /\ status' = "CLOSED"
    /\ IF ev'.code \in {500, -1}
         THEN /\ ev'.delays = <<BackOffGet(backOff)>>
              /\ backOff' = BackOffIncrement(backOff)
              /\ sleepers' = sleepers + 1
         ELSE /\ ev'.delays = <<>>
              /\ backOff' = backOff
              /\ sleepers' = sleepers
    /\ (\E i \in 1..Len(ev'.emits) : ev'.emits[i] = "authError")
         <=> ev'.code \in {401, 403}
C12_RetryPolicy == [][C12_RetryOnlyTransient]_vars

\* C12 witness: an attempt has just failed with 404 and the manager gave up:
\* nothing scheduled, no authError.
C12_Witness ==
  /\ ev.op = "connectFail"
  /\ ev.code = 404
  /\ ev.emits = <<"statusChange">>
  /\ ev.delays = <<>>
  /\ authenticated = 0
  /\ status = "CLOSED"
  /\ sleepers = 0

\* C13: while the offline flag is set, an authenticate call and a fetch routed
\* to the unauthenticated channel are rejected at once with an HTTPError of
\* code 0; no process is created, no call is left waiting, and the stored
\* credentials, the status and both slots are unchanged.
C13_OfflineCall ==
  /\ isOffline
  /\ \/ ev'.op = "authenticate"
     \/ ev'.op = "fetch" /\ ev'.route = "unauth"
C13_RejectedLocally ==
  C13_OfflineCall =>
    /\ ev'.outcomes = {[call |-> ev'.op, p |-> 0, res |-> "throw",
                        error |-> HTTPError(0)]}
    /\ procs' = procs
    /\ calls' = calls
    /\ credentials' = credentials
    /\ status' = status
    /\ authenticated' = authenticated
    /\ unauthenticated' = unauthenticated
C13_OfflineRejects == [][C13_RejectedLocally]_vars

\* C13 witness: offline, authenticate was called with credentials other than
\* the stored ones and was rejected; the stored ones are still there.
C13_Witness ==
  /\ isOffline
  /\ ev.op = "authenticate"
  /\ credentials # 0
  /\ ~SameCredentials(credentials, ev.arg)
  /\ \E o \in ev.outcomes : o.res = "throw" /\ o.error = HTTPError(0)

\* C14: onOffline sets the offline flag, aborts the processes of both slots
\* and empties the slots in the same step, scheduling nothing; and as long as
\* the flag stays set no step takes a back-off delay, advances the back-off,
\* puts a reconnect to sleep or creates a process, the wake-up of a reconnect
\* scheduled earlier included.
C14_GoesOffline ==
  ev'.op = "onOffline" =>
    /\ isOffline'
    /\ authenticated' = 0
    /\ unauthenticated' = 0
    /\ status' = "CLOSED"
    /\ authenticated # 0 => procs'[authenticated].st \in {"aborted", "closing"}
    /\ unauthenticated # 0 => procs'[unauthenticated].st \in {"aborted", "closing"}
    /\ ev'.delays = <<>>
    /\ backOff' = backOff
    /\ sleepers' = sleepers
C14_QuietWhileOffline ==
  isOffline /\ isOffline' =>
    /\ ev'.delays = <<>>
    /\ backOff' = backOff
    /\ sleepers' <= sleepers
    /\ \A p \in Procs : procs[p].st = "none" => procs'[p].st = "none"
C14_Offline == [][C14_GoesOffline /\ C14_QuietWhileOffline]_vars

\* C14 witness: a reconnect scheduled before the manager went offline has
\* woken while it is offline; there are credentials and the slot is empty.
C14_Witness ==
  /\ ev.op = "reconnectWake"
  /\ isOffline
  /\ credentials # 0
  /\ authenticated = 0
  /\ sleepers = 0

\* C15: logout aborts the process of the authenticated slot if there is one,
\* empties the slot, leaves the status CLOSED and the credentials cleared,
\* and changes neither the offline flag, the unauthenticated slot, its expiry
\* timer, the registered handlers nor any other process.
C15_LogoutEffect ==
  ev'.op = "logout" =>
    /\ authenticated # 0 => procs'[authenticated].st \in {"aborted", "closing"}
    /\ authenticated' = 0
    /\ status' = "CLOSED"
    /\ credentials' = 0
    /\ isOffline' = isOffline
    /\ unauthenticated' = unauthenticated
    /\ unauthenticatedExpirationTimer' = unauthenticatedExpirationTimer
    /\ requestHandlers' = requestHandlers
    /\ \A p \in Procs : p # authenticated => procs'[p] = procs[p]
C15_Logout == [][C15_LogoutEffect]_vars

\* C15 witness: logout has just closed the authenticated resource while an
\* unauthenticated resource with an armed timer and a handler are in place.
C15_Witness ==
  /\ ev.op = "logout"
  /\ \E p \in Procs : procs[p] = [kind |-> "auth", st |-> "closing"]
  /\ unauthenticated # 0
  /\ unauthenticatedExpirationTimer = unauthenticated
  /\ requestHandlers # <<>>
  /\ credentials = 0
  /\ status = "CLOSED"

\* C16: onOnline clears the offline flag; with stored credentials and an
\* empty authenticated slot (as after onOffline) it starts a new attempt of
\* the authenticated channel with those credentials; with stored credentials
\* and a process in the slot it waits for that process; without stored
\* credentials it starts nothing.
C16_OnOnlineEffect ==
  ev'.op = "onOnline" =>
    /\ ~isOffline'
    /\ credentials' = credentials
    /\ unauthenticated' = unauthenticated
    /\ IF credentials = 0
         THEN procs' = procs /\ authenticated' = authenticated /\ status' = status
         ELSE IF authenticated = 0
           THEN /\ authenticated' # 0
                /\ procs[authenticated'].st = "none"
                /\ procs'[authenticated'] = [kind |-> "auth", st |-> "connecting"]
                /\ status' = "CONNECTING"
           ELSE procs' = procs /\ authenticated' = authenticated
C16_OnOnline == [][C16_OnOnlineEffect]_vars

\* C16 witness: after onOffline aborted the authenticated process, onOnline
\* has just started a new attempt with the stored credentials.
C16_Witness ==
  /\ ev.op = "onOnline"
  /\ ~isOffline
  /\ credentials # 0
  /\ authenticated # 0
  /\ procs[authenticated].st = "connecting"
  /\ status = "CONNECTING"
  /\ \E q \in Procs :
       q # authenticated /\ procs[q].kind = "auth"
         /\ procs[q].st \in {"aborted", "closing"}

\* C17: authenticate called with an empty username and an empty password
\* creates no process, leaves no call waiting and leaves the stored
\* credentials, the status and the authenticated slot unchanged; the stored
\* credentials are never the empty ones, and every process of the
\* authenticated channel is created with stored, non-empty credentials.
C17_Empty(c) == Cred(c).username = <<>> /\ Cred(c).password = <<>>
C17_NoAttempt ==
  ev'.op = "authenticate" /\ C17_Empty(ev'.arg) =>
    /\ procs' = procs
    /\ calls' = calls
    /\ credentials' = credentials
    /\ status' = status
    /\ authenticated' = authenticated
C17_AttemptHasLogin ==
  \A p \in Procs :
    procs[p].st = "none" /\ procs'[p].kind = "auth" =>
      credentials' # 0 /\ ~C17_Empty(credentials')
C17_StoredNotEmpty ==
  credentials # 0 => ~C17_Empty(credentials)
C17_EmptyCredentials ==
  [](C17_StoredNotEmpty) /\ [][C17_NoAttempt /\ C17_AttemptHasLogin]_vars

\* C17 witness: authenticate was called with empty credentials while the
\* manager is OPEN, and returned; the connection and the credentials remain.
C17_Witness ==
  /\ ev.op = "authenticate"
  /\ C17_Empty(ev.arg)
  /\ \E o \in ev.outcomes : o.call = "authenticate" /\ o.res = "return"
  /\ status = "OPEN"
  /\ authenticated # 0
  /\ credentials # 0

\* C18: after every step that takes a process out of the authenticated slot
\* (logout, onOffline, the close or the failure of the current process, and
\* the replacement of the process by an authenticate with other credentials)
\* the incoming-request queue is empty.
C18_Teardown ==
  authenticated # 0 /\ authenticated' # authenticated
C18_QueueClearedOnTeardown ==
  [][C18_Teardown => incomingRequestQueue' = <<>>]_vars

\* C19: when the attempt of the process of the authenticated slot fails with
\* -1, 500 or a connect timeout, a reconnect is scheduled and no caller is
\* rejected: the authenticate calls waiting for the attempt return, and the
\* fetch that started the attempt through getAuthenticatedResource is not
\* rejected.
C19_TransportFailure ==
  /\ ev'.op = "connectFail"
  /\ ev'.code \in {-1, 500, ConnectTimeoutError.code}
  /\ procs[ev'.arg].kind = "auth"
  /\ authenticated = ev'.arg
C19_NotSurfaced ==
  [][C19_TransportFailure =>
       /\ ev'.delays = <<BackOffGet(backOff)>>
       /\ \A o \in ev'.outcomes :
            /\ o.call = "authenticate" => o.res = "return"
            /\ o.call = "fetch" => o.res # "assert"]_vars

\* C20: a request that arrives while handlers are registered is handed to
\* every one of them, in registration order, whether or not one of them
\* throws, and is not queued; a handler that throws while the queue is drained
\* to it still receives every queued request; and the only trace of a throw
\* is that it was caught: the step completes and nothing is rethrown.
C20_DispatchToAll ==
  ev'.op = "request" /\ requestHandlers # <<>> =>
    /\ ev'.handled = [i \in 1..Len(requestHandlers) |->
                        <<requestHandlers[i], nextReq>>]
    /\ incomingRequestQueue' = incomingRequestQueue
C20_DrainSurvivesThrow ==
  /\ ev'.op = "registerRequestHandler"
  /\ incomingRequestQueue # <<>>
  /\ requestHandlers' # <<>>
  => /\ Len(ev'.handled) = Len(incomingRequestQueue)
     /\ incomingRequestQueue' = <<>>
C20_ThrowIsCaught ==
  ev'.op \in {"request", "registerRequestHandler"} =>
    \A o \in ev'.outcomes :
      /\ o.res = "caught"
      /\ \E i \in 1..Len(ev'.handled) : ev'.handled[i] = <<o.call, o.p>>
C20_HandlerErrors ==
  [][C20_DispatchToAll /\ C20_DrainSurvivesThrow /\ C20_ThrowIsCaught]_vars

\* C20 witness: a request has just been dispatched to two handlers; the first
\* one threw, the second one received the request all the same.
C20_Witness ==
  /\ ev.op = "request"
  /\ Len(ev.handled) = 2
  /\ \E o \in ev.outcomes : o.res = "caught" /\ o.call = ev.handled[1][1]
  /\ ev.handled[2][1] # ev.handled[1][1]
  /\ ev.handled[2][2] = ev.handled[1][2]

\* C21: at most one expiry timeout is armed, it is the one whose handle is in
\* unauthenticatedExpirationTimer and it belongs to the process in the
\* unauthenticated slot; the field never holds the handle of a timeout that is
\* no longer armed; and every step that takes a process out of the slot (a
\* drop, an expiry, a replacement) leaves no timeout armed and the field empty.
C21_OneTimerForCurrent ==
  /\ [](/\ Len(expirationTimers) <= 1
        /\ \A i \in 1..Len(expirationTimers) :
             /\ expirationTimers[i] = unauthenticated
             /\ expirationTimers[i] = unauthenticatedExpirationTimer
        /\ unauthenticatedExpirationTimer # 0 => Len(expirationTimers) = 1)
  /\ [][unauthenticated # 0 /\ unauthenticated' # unauthenticated =>
          /\ expirationTimers' = <<>>
          /\ unauthenticatedExpirationTimer' = 0]_vars

\* A dropped resource with its close still pending, its timer gone, and a
\* newer resource in the slot with the only armed timer.
C21_Witness ==
  /\ \E p \in Procs : /\ procs[p].kind = "unauth"
                      /\ procs[p].st = "closing"
                      /\ p # unauthenticated
  /\ unauthenticated # 0
  /\ expirationTimers = <<unauthenticated>>
  /\ unauthenticatedExpirationTimer = unauthenticated

C23_ExternalClose ==
  /\ [][(/\ ev'.op = "close"
         /\ unauthenticated # 0
         /\ ev'.arg = unauthenticated) =>
          /\ unauthenticated' = 0
          /\ expirationTimers' = <<>>
          /\ unauthenticatedExpirationTimer' = 0
          /\ \A q \in Procs : procs[q].st = "none" => procs'[q].st = "none"
          /\ sleepers' = sleepers
          /\ ev'.delays = <<>>
          /\ ev'.transport = <<>>]_vars
  /\ [][\A q \in Procs :
          (/\ unauthenticated = 0
           /\ procs[q].st = "none"
           /\ procs'[q].kind = "unauth") => ev'.op = "fetch"]_vars

\* The resource in the slot, its timer armed, was closed by the peer: the slot
\* and the timer are gone and no attempt is under way.
C23_Witness ==
  /\ ev.op = "close"
  /\ procs[ev.arg] = [kind |-> "unauth", st |-> "done"]
  /\ unauthenticated = 0
  /\ unauthenticatedExpirationTimer = 0
  /\ expirationTimers = <<>>
  /\ ev.code = 1006
  /\ ~isOffline
  /\ \A q \in Procs : procs[q].st # "connecting"

\* C24: a close event with code 3000 on the process in the authenticated slot
\* drops it and schedules no reconnect; every close the manager asks of a
\* resource carries code 3000, and an abort of a connected process asks for
\* exactly that; and the close event of a process the manager has aborted
\* (closing, no longer in the slot) changes no slot and schedules no reconnect,
\* whatever code it carries.
C24_NoReconnectAfterIntentionalClose ==
  /\ [][(/\ ev'.op = "close"
         /\ ev'.code = IntentionalClose
         /\ authenticated # 0
         /\ ev'.arg = authenticated) =>
          /\ authenticated' = 0
          /\ status' = "CLOSED"
          /\ ev'.delays = <<>>
          /\ sleepers' = sleepers
          /\ \A q \in Procs : procs[q].st = "none" => procs'[q].st = "none"]_vars
  /\ [][\A i \in 1..Len(ev'.transport) :
          ev'.transport[i].cmd = "close" =>
            /\ ev'.transport[i].code = IntentionalClose
            /\ procs[ev'.transport[i].p].st = "open"
            /\ procs'[ev'.transport[i].p].st = "closing"]_vars
  /\ [][\A p \in Procs :
          (procs[p].st = "open" /\ procs'[p].st = "closing") =>
            /\ ev'.op \in {"logout", "onOffline", "authenticate", "onOnline",
                           "fetch", "reconnectWake"}
            /\ \E i \in 1..Len(ev'.transport) :
                 ev'.transport[i] = [cmd |-> "close", p |-> p,
                                     code |-> IntentionalClose]
            /\ authenticated' # p
            /\ unauthenticated' # p]_vars
  /\ [](\A p \in Procs : procs[p].st \in {"closing", "aborted"} =>
          p \notin {authenticated, unauthenticated})
  /\ [][(ev'.op = "close" /\ procs[ev'.arg].st = "closing") =>
          /\ ev'.delays = <<>>
          /\ sleepers' = sleepers
          /\ authenticated' = authenticated
          /\ status' = status
          /\ \A q \in Procs : procs[q].st = "none" => procs'[q].st = "none"]_vars

\* The close event, code 3000, of an authenticated resource that logout
\* aborted while it was connected: nothing sleeps, nothing is connecting.
C24_Witness ==
  /\ ev.op = "close"
  /\ ev.code = IntentionalClose
  /\ procs[ev.arg] = [kind |-> "auth", st |-> "done"]
  /\ credentials = 0
  /\ authenticated = 0
  /\ sleepers = 0
  /\ ev.delays = <<>>

\* The processes a forced keepalive was sent to in a step with this log.
C25_Keepalives(log) ==
  {log[i].p : i \in {j \in 1..Len(log) : log[j].cmd = "forceKeepAlive"}}

\* C25: a check() step changes no slot, no process, no credentials, status,
\* queue, handler or timer; while offline it sends nothing and suspends
\* nothing; otherwise it sends one forced keepalive to each slot process that
\* is connected and waits for each slot process that is still connecting, and
\* touches no other socket.  A forced keepalive is only ever sent by check, or
\* by the connection of a process a check is waiting for, to a connected
\* process that is in a slot.
C25_Check ==
  /\ [][ev'.op = "check" =>
          /\ UNCHANGED <<procs, authenticated, unauthenticated, credentials,
                         status, incomingRequestQueue, requestHandlers,
                         unauthenticatedExpirationTimer, expirationTimers,
                         connectTimers, isOffline, backOff, sleepers,
                         dispatched, nextReq>>
          /\ ev'.emits = <<>> /\ ev'.delays = <<>> /\ ev'.handled = <<>>
          /\ ev'.outcomes = {}
          /\ isOffline => (ev'.transport = <<>> /\ calls' = calls)
          /\ ~isOffline =>
               /\ C25_Keepalives(ev'.transport) =
                    {p \in {authenticated, unauthenticated} \ {0} :
                       procs[p].st = "open"}
               /\ Len(ev'.transport) = Cardinality(C25_Keepalives(ev'.transport))
               /\ calls' = calls \cup
                    {[type |-> "check", p |-> p] :
                       p \in {q \in {authenticated, unauthenticated} \ {0} :
                                procs[q].st = "connecting"}}]_vars
  /\ [][\A p \in C25_Keepalives(ev'.transport) :
          /\ p \in {authenticated', unauthenticated'}
          /\ procs'[p].st = "open"
          /\ \/ ev'.op = "check"
             \/ /\ ev'.op = "connect"
                /\ ev'.arg = p
                /\ [type |-> "check", p |-> p] \in calls]_vars

\* check() found both resources connected and sent a keepalive to each.
C25_Witness ==
  /\ ev.op = "check"
  /\ authenticated # 0
  /\ unauthenticated # 0
  /\ C25_Keepalives(ev.transport) = {authenticated, unauthenticated}
  /\ Len(ev.transport) = 2

\* C26: getProvisioningResource creates one process that it stores in neither
\* slot and leaves both slots, the status, the credentials, the queue and the
\* handlers as they are; a provisioning process is never in a slot, and its
\* connection, failure and close change none of those either and schedule no
\* reconnect; a request that arrives on it is handed to the handler of the
\* caller only: not queued, not dispatched to a registered handler.
C26_Provisioning ==
  /\ [][ev'.op = "getProvisioningResource" =>
          /\ UNCHANGED <<authenticated, unauthenticated, status, credentials,
                         incomingRequestQueue, requestHandlers, sleepers,
                         unauthenticatedExpirationTimer, expirationTimers>>
          /\ \E p \in Procs :
               /\ procs[p].st = "none"
               /\ procs' = [procs EXCEPT ![p] = [kind |-> "prov", st |-> "connecting"]]
               /\ calls' = calls \cup {[type |-> "prov", p |-> p]}
          /\ ev'.emits = <<>> /\ ev'.transport = <<>>]_vars
  /\ [](\A p \in Procs : procs[p].kind = "prov" =>
          p \notin {authenticated, unauthenticated})
  /\ [][(/\ ev'.op \in {"connect", "connectFail", "close"}
         /\ procs[ev'.arg].kind = "prov") =>
          /\ UNCHANGED <<authenticated, unauthenticated, status, credentials,
                         incomingRequestQueue, requestHandlers, sleepers,
                         backOff>>
          /\ ev'.emits = <<>> /\ ev'.delays = <<>>
          /\ \A o \in ev'.outcomes : o.call = "getProvisioningResource"
                                     /\ o.p = ev'.arg]_vars
  /\ [][ev'.op = "provisioningRequest" =>
          /\ procs[ev'.arg] = [kind |-> "prov", st |-> "open"]
          /\ ev'.handled = << <<"provisioning", nextReq>> >>
          /\ UNCHANGED <<incomingRequestQueue, dispatched, requestHandlers,
                         authenticated, unauthenticated, status, credentials>>]_vars

\* A request arrived on the provisioning resource while a handler was
\* registered and the authenticated resource was connected.
C26_Witness ==
  /\ ev.op = "provisioningRequest"
  /\ requestHandlers # <<>>
  /\ authenticated # 0
  /\ procs[authenticated].st = "open"
  /\ ev.handled = << <<"provisioning", nextReq - 1>> >>

\* The close and abort requests the step with this log made for process p.
C27_Requests(log, p) ==
  {i \in 1..Len(log) : log[i].p = p /\ log[i].cmd \in {"close", "abort"}}

C28_Count(emits, event) == Cardinality({i \in 1..Len(emits) : emits[i] = event})

\* C28: the status is one of CLOSED, CONNECTING and OPEN, and statusChange is
\* emitted exactly when its value changes: once in a step that changes it, not
\* at all in a step that leaves it as it is, a setStatus call with the current
\* value included.
C28_StatusChange ==
  /\ [](status \in {"CLOSED", "CONNECTING", "OPEN"})
  /\ [][/\ status' # status => C28_Count(ev'.emits, "statusChange") = 1
        /\ status' = status => C28_Count(ev'.emits, "statusChange") = 0]_vars

\* authenticate with other credentials while the previous attempt was still
\* connecting: setStatus(CONNECTING) with the status already CONNECTING.
C28_Witness ==
  /\ ev.op = "authenticate"
  /\ status = "CONNECTING"
  /\ Len(ev.transport) = 1
  /\ ev.transport[1].cmd = "abort"
  /\ ev.emits = <<>>

\* C29: the connect timer of a process is armed exactly while the process is
\* connecting: once it has connected, failed or been aborted the timer is
\* cancelled and cannot reject it.  When the timer fires, the attempt, still
\* connecting, is rejected with ConnectTimeoutError (a retryable failure for
\* the authenticated channel), its client is aborted, and the timer is spent.
C29_ConnectTimeout ==
  /\ [](\A p \in Procs : p \in connectTimers <=> procs[p].st = "connecting")
  /\ [][(ev'.op = "connectFail" /\ ev'.code = ConnectTimeoutError.code) =>
          /\ ev'.arg \in connectTimers
          /\ procs[ev'.arg].st = "connecting"
          /\ procs'[ev'.arg].st = "done"
          /\ ev'.transport = <<[cmd |-> "abort", p |-> ev'.arg, code |-> 0]>>
          /\ ev'.arg \notin connectTimers'
          /\ ev'.arg \notin {authenticated', unauthenticated'}
          /\ \A c \in calls : c.p = ev'.arg => c \notin calls'
          /\ ev'.arg = authenticated => (Len(ev'.delays) = 1 /\ ev'.emits # <<>>)]_vars
  /\ [][\A p \in Procs :
          (p \in connectTimers /\ p \notin connectTimers') =>
            /\ ev'.op \in {"connect", "connectFail", "connectFailed", "logout",
                           "onOffline", "authenticate", "onOnline",
                           "reconnectWake", "fetch"}
            /\ procs'[p].st \in {"open", "done", "aborted"}]_vars

\* The connect timer fired on an attempt of the authenticated channel.
C29_Witness ==
  /\ ev.op = "connectFail"
  /\ ev.code = ConnectTimeoutError.code
  /\ procs[ev.arg] = [kind |-> "auth", st |-> "done"]
  /\ ev.transport = <<[cmd |-> "abort", p |-> ev.arg, code |-> 0]>>
  /\ connectTimers = {}
  /\ sleepers = 1

\* C30: when the attempt in the authenticated slot fails because the
\* certificate was rejected or the handshake failed, no reconnect is
\* scheduled: no delay is taken and nothing goes to sleep.
C30_NoRetryAfterHandshakeFailure ==
  [][(/\ ev'.op = "connectFailed"
      /\ ev'.cause \in {"certificate", "handshake"}
      /\ authenticated # 0
      /\ ev'.arg = authenticated) =>
       /\ ev'.delays = <<>>
       /\ sleepers' = sleepers]_vars

\* C31: no reconnect that wakes up fails its assertion: when it wakes online
\* with the authenticated slot empty, credentials are stored.
C31_CredentialsAtWake ==
  \A o \in ev.outcomes : ~(o.call = "reconnect" /\ o.res = "assert")

\* C32: facing retryable failures only, an online manager with stored
\* credentials always has a process in the authenticated slot or a reconnect
\* asleep; and, the sleep ending and the server accepting a connection in the
\* end, from every such state the status becomes OPEN, unless the manager
\* is taken offline or logged out first.
C32_NeverStuck ==
  /\ []((~isOffline /\ credentials # 0) => (authenticated # 0 \/ sleepers > 0))
  /\ (~isOffline /\ credentials # 0) ~>
       (status = "OPEN" \/ isOffline \/ credentials = 0)

\* Connected at last, after a failed attempt and a reconnect.
C32_Witness ==
  /\ status = "OPEN"
  /\ ev.op = "connect"
  /\ backOff = 0
  /\ \E p \in Procs : procs[p] = [kind |-> "auth", st |-> "done"]
  /\ ~isOffline


\* C33: the status is CLOSED exactly when the authenticated slot is empty, and
\* it is CONNECTING only when the slot holds a process whose connection
\* attempt has not yet settled.
C33_StatusAndSlot ==
  /\ (status = "CLOSED") <=> (authenticated = 0)
  /\ status = "CONNECTING" =>
       authenticated # 0 /\ procs[authenticated].st = "connecting"

\* C33 witness: a second authenticate with other credentials superseded a
\* connected process: CONNECTING, the new process in the slot still
\* connecting, the old one closing.
C33_Witness ==
  /\ status = "CONNECTING"
  /\ ev.op = "authenticate"
  /\ authenticated # 0
  /\ procs[authenticated] = [kind |-> "auth", st |-> "connecting"]
  /\ \E p \in Procs \ {authenticated} : procs[p] = [kind |-> "auth", st |-> "closing"]


\* C34: after every completed step a non-empty queue means that no handler is
\* registered; and a registerRequestHandler call that finds requests queued
\* loses none and repeats none, also when the handler unregisters itself
\* while it handles one of them: the queued requests are delivered to that
\* handler, each once and in order, up to the one during which it left, and
\* the rest are the new queue, in their original order.
C34_QueuedOnlyWithoutHandler ==
  incomingRequestQueue # <<>> => requestHandlers = <<>>
C34_NoneLostNoneRepeated ==
  ev'.op = "registerRequestHandler" /\ incomingRequestQueue # <<>> =>
    /\ [i \in 1..Len(ev'.handled) |-> ev'.handled[i][2]] \o incomingRequestQueue'
         = incomingRequestQueue
    /\ \A i \in 1..Len(ev'.handled) : ev'.handled[i][1] = ev'.arg
    /\ \A i, j \in 1..Len(ev'.handled) :
         ev'.handled[i] = ev'.handled[j] => i = j
    /\ ev'.handled # <<>>
C36_TimerAssertionsHold ==
  \A o \in ev.outcomes :
    ~(o.call = "fetch" /\ o.res = "assert" /\ o.p # 0 /\ procs[o.p].kind = "unauth")


\* C36 witness: an earlier unauthenticated process has ended (it failed, was
\* dropped by onOffline, expired or closed); a fetch waited for the next
\* process, which has just connected: the fetch found its process in the slot
\* and armed the timer.
C36_Witness ==
  /\ ev.op = "connect"
  /\ [call |-> "fetch", p |-> ev.arg, res |-> "sent-unauth", error |-> NoError]
       \in ev.outcomes
  /\ unauthenticated = ev.arg
  /\ unauthenticatedExpirationTimer = ev.arg
  /\ \E q \in Procs \ {ev.arg} : procs[q] = [kind |-> "unauth", st |-> "done"]


\* C35: fetches of the unauthenticated channel made while a process is in the
\* slot share it: such a fetch creates no process and waits for the process
\* of the slot (or is served by its resource at once), so at most one
\* unauthenticated attempt is under way and it is the one in the slot; when
\* the attempt succeeds the waiting fetches are all served by its resource,
\* and when it fails they are all rejected and the slot is empty.
C35_OneAttempt ==
  /\ \A p \in Procs :
       procs[p] = [kind |-> "unauth", st |-> "connecting"] => unauthenticated = p
  /\ \A c \in calls :
       c.type = "fetchP" /\ procs[c.p].kind = "unauth" =>
         \/ procs[c.p].st = "connecting"
         \/ procs[c.p].st = "aborted" /\ unauthenticated # c.p
C35_FetchShares ==
  ev'.op = "fetch" /\ ev'.route = "unauth" /\ unauthenticated # 0 =>
    /\ ev'.created = <<>>
    /\ unauthenticated' = unauthenticated
    /\ IF Pending(procs[unauthenticated].st)
         THEN /\ [type |-> "fetchP", p |-> unauthenticated] \in calls'
              /\ ev'.outcomes = {}
         ELSE ev'.outcomes = {[call |-> "fetch", p |-> unauthenticated,
                               res |-> "sent-unauth", error |-> NoError]}
C35_AttemptSettles ==
  LET p == ev'.arg
      waiting == [type |-> "fetchP", p |-> p] \in calls
      fetched(res) == [call |-> "fetch", p |-> p, res |-> res, error |-> NoError]
  IN /\ ev'.op = "connect" /\ procs[p].kind = "unauth" =>
          /\ unauthenticated' = p
          /\ waiting => ev'.outcomes = {fetched("sent-unauth")}
          /\ \A c \in calls' : c.p # p
     /\ /\ ev'.op \in {"connectFail", "connectFailed", "abortSettles"}
        /\ procs[p].kind = "unauth"
        /\ procs'[p].st = "done" /\ procs[p].st # "done"
        => /\ unauthenticated = p => unauthenticated' = 0
           /\ unauthenticated' # p
           /\ waiting => ev'.outcomes = {fetched("reject")}
           /\ \A c \in calls' : c.p # p
C35_SharedAttempt ==
  [](C35_OneAttempt) /\ [][C35_FetchShares /\ C35_AttemptSettles]_vars

\* C35 witness: a fetch found the process an earlier fetch had created still
\* connecting: it created none and waits for that one, the only
\* unauthenticated process there is.
C35_Witness ==
  /\ ev.op = "fetch"
  /\ ev.route = "unauth"
  /\ ev.created = <<>>
  /\ unauthenticated # 0
  /\ procs[unauthenticated] = [kind |-> "unauth", st |-> "connecting"]
  /\ calls = {[type |-> "fetchP", p |-> unauthenticated]}
  /\ \A q \in Procs \ {unauthenticated} : procs[q] = NoProc


\* C37: only requests received on the process that is in the authenticated
\* slot reach the handlers or the queue: a request that a superseded or
\* dropped authenticated resource delivers is neither dispatched nor queued,
\* and so the queue is empty whenever the authenticated slot is empty.
C37_StaleRequest ==
  ev'.op = "request" /\ authenticated # ev'.arg
C39_OtherFailure ==
  /\ ev'.op = "connectFail"
  /\ ev'.code \notin HTTPCodes
  /\ procs[ev'.arg].kind = "auth"
  /\ authenticated = ev'.arg
C39_DroppedAndRetried ==
  C39_OtherFailure =>
    /\ authenticated' = 0
    /\ incomingRequestQueue' = <<>>
    /\ status' = "CLOSED"
    /\ ev'.emits = <<"statusChange">>
    /\ credentials' = credentials
    /\ ev'.delays = <<BackOffGet(backOff)>>
    /\ backOff' = BackOffIncrement(backOff)
    /\ sleepers' = sleepers + 1
C39_RetryAfterTimeout == [][C39_DroppedAndRetried]_vars

\* C39 witness: the first attempt timed out: slot empty, CLOSED, credentials
\* kept, one reconnect asleep for the first delay of the back-off.
C39_Witness ==
  /\ ev.op = "connectFail"
  /\ ev.code = ConnectTimeoutError.code
  /\ procs[ev.arg] = [kind |-> "auth", st |-> "done"]
  /\ authenticated = 0
  /\ status = "CLOSED"
  /\ credentials # 0
  /\ ev.delays = <<BackOffGet(0)>>
  /\ backOff = BackOffIncrement(0)


\* C40: the back-off is advanced exactly once by every reconnect that is
\* scheduled, which sleeps for the delay the back-off held, and it is reset
\* only by the success of an attempt of the authenticated channel; so the
\* delays taken since the last success never decrease, and the first of them
\* is the first delay of the back-off.
C40_OncePerReconnect ==
  /\ Len(ev'.delays) <= 1
  /\ ev'.delays # <<>> =>
       /\ ev'.delays = <<BackOffGet(backOff)>>
       /\ backOff' = BackOffIncrement(backOff)
       /\ returned' = Append(returned, BackOffGet(backOff))
       /\ sleepers' = sleepers + (IF ev'.op = "reconnectWake" THEN 0 ELSE 1)
  /\ ev'.delays = <<>> =>
       \/ backOff' = backOff /\ returned' = returned
       \/ /\ ev'.op = "connect"
          /\ procs[ev'.arg].kind = "auth"
          /\ authenticated' = ev'.arg
          /\ status' = "OPEN"
          /\ backOff' = 0
          /\ returned' = <<>>
C40_DelaysSinceSuccess ==
  /\ \A i, j \in 1..Len(returned) : i < j => returned[i] <= returned[j]
  /\ returned # <<>> => returned[1] = BackOffTimeouts[1]
C40_BackOff ==
  [](C40_DelaysSinceSuccess) /\ [][C40_OncePerReconnect]_vars

\* C40 witness: the authenticated channel was lost twice with no success in
\* between: two reconnects since the back-off was last at its start, the
\* first with the first delay, the second, just scheduled, with the next one.
C40_Witness ==
  /\ returned = <<BackOffTimeouts[1], BackOffTimeouts[2]>>
  /\ backOff = 2
  /\ ev.delays = <<BackOffTimeouts[2]>>
  /\ \E p \in Procs : procs[p] = [kind |-> "auth", st |-> "done"]

====
